---- MODULE Spec2Model ----
(***************************************************************************)
(* A model of the DKP weekly-points wizard: the two-dialect line parser,   *)
(* the aggregation / streak engine and the wizard page that drives them.   *)
(*                                                                         *)
(* Text is modelled at the character level: a string is a sequence of      *)
(* one-character strings, so normalisation, tokenisation and modifier      *)
(* extraction are computed the way the code computes them.  A raw line is  *)
(* a record [fmt, stamp, rest]: fmt says which timestamp regular           *)
(* expression the text can match ("old", "new" or "none"), stamp is what   *)
(* the timestamp text denotes (ok = some listed format parses it, min =    *)
(* its local wall-clock minute) and rest is the text after the timestamp   *)
(* prefix (the whole text when fmt = "none").                              *)
(***************************************************************************)
EXTENDS Integers, Sequences, FiniteSets, TLC

VARIABLES
  pParts,     \* parser harness: the pieces the raw line is put together from
  pTables,    \* parser harness: the tables the lookup is built from
  pTz,        \* parser harness: the timezone
  pOut,       \* parser harness: the ParsedLine records returned so far
  pLookup,    \* parser harness: the ParserLookup the calls share
  aLines,     \* aggregation harness: the parsed lines handed to computeWeeklySummary
  aBosses,    \* aggregation harness: the boss table (bossPointsByName is built from it)
  aUsers,     \* aggregation harness: the roster
  aThresholds,\* aggregation harness: [lowMax, mediumMax]
  aRows,      \* aggregation harness: <<>> or <<the rows returned>>
  hRows,      \* streak harness: allTotals, the historical rows
  hWeeks,     \* streak harness: weeksOrder
  hOut,       \* streak harness: <<>> or <<the rows returned by recomputeStreaks>>
  fLines,     \* window harness: the physical lines of a file
  fTables,    \* window harness: the setup tables
  fWeekStart, \* window harness: weekStartUtcDate
  fTz,        \* window harness: timezone
  fOut,       \* window harness: <<>> or <<the lines returned by parseCurrentFile>>
  fMerged,    \* window harness: the mergedLines array the last call built
  dValues,    \* list harness: the list handed to dedupePreserveOrder / the candidates
  dToken,     \* list harness: the token suggestions are asked for
  dOut,       \* list harness: the lists returned so far
  nowMs,      \* the clock Date.now() reads, in milliseconds
  limits,     \* how far a session is followed: tasks in flight, parses
  rq,         \* request harness: one call of SheetsClient.request
  \* WizardPage component state (useState / useRef)
  weekStartUtcDate, timezone, rawLines, parsedLines, parseVersion, hasParsed,
  discardedLines, canonicalUsers, bosses, bossAliases, nameAliases, config,
  error, busy, resultRows, storedWeeks, selectedStoredWeek, autoLoadAttempted,
  setupCacheRef, lastAutoCalcRef,
  \* the spreadsheets
  sheetSetup,     \* users range, Bosses, BossAliases, NameAliases, Config tabs
  sheetWeeks,     \* Weeks tab
  sheetTotals,    \* WeekUserTotals tab
  sheetBreakdown, \* WeekBossBreakdown tab
  \* asynchronous calls in flight, each with the values its closure captured
  setupTasks,     \* loadSetupData calls awaiting the sheets
  saveTasks,      \* calculateAndSaveFromParsed calls inside saveWeeklyData
  viewTasks,      \* loadStoredWeekView calls awaiting the sheets
  resolveTasks    \* handleAddNameAlias / handleAddBossAlias / handleAddBoss calls awaiting the append

parseVars == <<pParts, pTables, pTz, pOut, pLookup>>
aggVars == <<aLines, aBosses, aUsers, aThresholds, aRows>>
streakVars == <<hRows, hWeeks, hOut>>
windowVars == <<fLines, fTables, fWeekStart, fTz, fOut, fMerged>>
fileVars == <<rawLines, parsedLines, parseVersion, hasParsed, discardedLines>>
setupVars == <<canonicalUsers, bosses, bossAliases, nameAliases, config, storedWeeks>>
uiVars == <<weekStartUtcDate, timezone, error, busy, resultRows, selectedStoredWeek,
            autoLoadAttempted, setupCacheRef, lastAutoCalcRef>>
sheetVars == <<sheetSetup, sheetWeeks, sheetTotals, sheetBreakdown>>
taskVars == <<setupTasks, saveTasks, viewTasks, resolveTasks>>
wizardVars == <<fileVars, setupVars, uiVars, sheetVars, taskVars>>
listVars == <<dValues, dToken, dOut>>
envVars == <<nowMs, limits, rq>>
harnessVars == <<parseVars, aggVars, streakVars, windowVars, listVars, envVars>>
vars == <<parseVars, aggVars, streakVars, windowVars, listVars, envVars, wizardVars>>

(***************************************************************************)
(* Generic helpers                                                         *)
(***************************************************************************)
Range(s) == {s[i] : i \in 1..Len(s)}
MinOf(S) == CHOOSE x \in S : \A y \in S : x <= y
MaxOf(S) == CHOOSE x \in S : \A y \in S : x >= y

RECURSIVE SortedSeq(_)
SortedSeq(S) == IF S = {} THEN <<>> ELSE <<MinOf(S)>> \o SortedSeq(S \ {MinOf(S)})

Reverse(seq) == [i \in 1..Len(seq) |-> seq[Len(seq) + 1 - i]]

RECURSIVE Flatten(_)
Flatten(ss) == IF ss = <<>> THEN <<>> ELSE Head(ss) \o Flatten(Tail(ss))

RECURSIVE BoundedSeqs(_, _)
BoundedSeqs(S, n) ==
  IF n = 0 THEN {<<>>}
  ELSE LET shorter == BoundedSeqs(S, n - 1)
       IN shorter \cup {Append(s, x) : s \in {t \in shorter : Len(t) = n - 1}, x \in S}

\* JavaScript's undefined for an optional string field, and for an optional number.
Undefined == <<"undefined">>
NoMillis == -1

(***************************************************************************)
(* Characters                                                              *)
(***************************************************************************)
WS == {" "}
UpperChars == <<"A","B","C","D","E","F","G","H","I","J","K","L","M",
                "N","O","P","Q","R","S","T","U","V","W","X","Y","Z">>
LowerChars == <<"a","b","c","d","e","f","g","h","i","j","k","l","m",
                "n","o","p","q","r","s","t","u","v","w","x","y","z">>
Digits == {"0","1","2","3","4","5","6","7","8","9"}
\* [\s.,!?;:'"()[\]{}<>] of normalizeKey
EdgeChars == WS \cup {".", ",", "!", "?", ";", ":", "'", "\"", "(", ")", "[", "]", "{", "}", "<", ">"}
\* [a-z0-9] of the modifier tokenizer
AlnumLower == Range(LowerChars) \cup Digits

toLowerChar(c) ==
  IF \E i \in 1..26 : UpperChars[i] = c
  THEN LowerChars[CHOOSE i \in 1..26 : UpperChars[i] = c]
  ELSE c

toLowerCase(s) == [i \in 1..Len(s) |-> toLowerChar(s[i])]
toLowerCaseAll(ss) == [i \in 1..Len(ss) |-> toLowerCase(ss[i])]

\* s with its leading and trailing characters of set E removed
StripEdges(s, E) ==
  LET keep == {i \in 1..Len(s) : s[i] \notin E}
  IN IF keep = {} THEN <<>> ELSE SubSeq(s, MinOf(keep), MaxOf(keep))

trim(s) == StripEdges(s, WS)

\* the maximal runs of s made of characters outside Sep, in order
SplitOn(s, Sep) ==
  LET starts == {i \in 1..Len(s) : s[i] \notin Sep /\ (i = 1 \/ s[i-1] \in Sep)}
      endOf(i) == MinOf({j \in i..Len(s) : j = Len(s) \/ s[j+1] \in Sep})
      order == SortedSeq(starts)
  IN [k \in 1..Len(order) |-> SubSeq(s, order[k], endOf(order[k]))]

\* replace(/\s+/g, " ")
CollapseWs(s) ==
  LET keep == SortedSeq({i \in 1..Len(s) : ~(s[i] \in WS /\ i > 1 /\ s[i-1] \in WS)})
  IN [k \in 1..Len(keep) |-> IF s[keep[k]] \in WS THEN " " ELSE s[keep[k]]]

RECURSIVE JoinWith(_, _)
JoinWith(ws, sep) ==
  IF ws = <<>> THEN <<>>
  ELSE IF Len(ws) = 1 THEN ws[1]
  ELSE ws[1] \o sep \o JoinWith(Tail(ws), sep)

Join(ws) == JoinWith(ws, <<" ">>)

(***************************************************************************)
(* normalize.ts                                                            *)
(***************************************************************************)
normalizeKey(input) == CollapseWs(StripEdges(toLowerCase(trim(input)), EdgeChars))

normalizeBossKey(input) == CollapseWs(toLowerCase(trim(input)))

splitWords(input) == SplitOn(input, WS)

RECURSIVE dedupeFrom(_, _, _)
\* one turn of the loop, for the key of the first value
dedupeKeyed(values, seen, out, key) ==
  IF key \in seen
  THEN dedupeFrom(Tail(values), seen, out)
  ELSE dedupeFrom(Tail(values), seen \cup {key}, Append(out, Head(values)))

dedupeFrom(values, seen, out) ==
  IF values = <<>> THEN out
  ELSE dedupeKeyed(values, seen, out, normalizeKey(Head(values)))

\* a function that drops nothing
dedupeKeepsAll(values) == values

dedupePreserveOrder(values) == dedupeFrom(values, {}, <<>>)

(***************************************************************************)
(* parser.ts: lookup tables                                                *)
(***************************************************************************)
\* A JavaScript Map filled by set() in array order: a later row with the same
\* key replaces an earlier one.
MapFrom(keys, values) ==
  [k \in Range(keys) |-> values[MaxOf({i \in 1..Len(keys) : keys[i] = k})]]

\* Map.get on a map of strings
MapGet(m, k) == IF k \in DOMAIN m THEN m[k] ELSE Undefined

\* a string is falsy when it is undefined or empty
Falsy(s) == s = Undefined \/ s = <<>>

createParserLookup(usersInput, bossesInput, nameAliasesInput, bossAliasesInput) ==
  [usersByKey |->
     MapFrom([i \in 1..Len(usersInput) |-> normalizeKey(usersInput[i])], usersInput),
   bossesByKey |->
     MapFrom([i \in 1..Len(bossesInput) |-> normalizeBossKey(bossesInput[i].boss)], bossesInput),
   nameAliasByKey |->
     MapFrom([i \in 1..Len(nameAliasesInput) |-> normalizeKey(nameAliasesInput[i].alias)],
             [i \in 1..Len(nameAliasesInput) |-> nameAliasesInput[i].canonical]),
   bossAliasByKey |->
     MapFrom([i \in 1..Len(bossAliasesInput) |-> normalizeBossKey(bossAliasesInput[i].alias)],
             [i \in 1..Len(bossAliasesInput) |-> bossAliasesInput[i].canonical])]

Issue(type, token, message) == [type |-> type, token |-> token, message |-> message]

(***************************************************************************)
(* parser.ts: timestamps                                                   *)
(***************************************************************************)
\* minutes east of UTC of the zones the model uses (standard time)
ZoneOffsetMinutes(zone) == IF zone = "America/New_York" THEN 0 - 5 * 60 ELSE 0

MsPerMinute == 60 * 1000
MsPerDay == 24 * 60 * MsPerMinute

\* DateTime.fromFormat(...) over the listed formats, then toUTC().toMillis():
\* undefined when no format parses the text
parseTimestampToUtcMillis(stamp, zone) ==
  IF stamp.ok THEN (stamp.min - ZoneOffsetMinutes(zone)) * MsPerMinute ELSE NoMillis

\* OLD_FORMAT_REGEX: "<stamp>:" then \s*(.+)$
OldFormatMatches(rawText) == rawText.fmt = "old" /\ Len(rawText.rest) >= 1
\* NEW_FORMAT_REGEX: "<stamp>" then \s+(.+?)\s*$
NewFormatMatches(rawText) ==
  rawText.fmt = "new" /\ Len(rawText.rest) >= 2 /\ rawText.rest[1] \in WS

isTimestampLineStart(rawText) == OldFormatMatches(rawText) \/ NewFormatMatches(rawText)

\* match[2] of OLD_FORMAT_REGEX: leading whitespace is eaten by \s*, but (.+)
\* keeps at least one character
OldRemainder(rest) ==
  LET nonWs == {i \in 1..Len(rest) : rest[i] \notin WS}
  IN IF nonWs = {} THEN SubSeq(rest, Len(rest), Len(rest))
     ELSE SubSeq(rest, MinOf(nonWs), Len(rest))

(***************************************************************************)
(* parser.ts: names and bosses                                             *)
(***************************************************************************)
\* aliasResolved: the alias target when the key is an alias, the token otherwise
AliasResolved(token, aliasHit) == IF Falsy(aliasHit) THEN token ELSE aliasHit

\* the end of resolveName, from the roster entry found for the token
NameFound(token, canonical) ==
  IF Falsy(canonical)
  THEN [canonical |-> Undefined, issue |-> <<Issue("UnknownName", token, "Unknown name")>>]
  ELSE [canonical |-> canonical, issue |-> <<>>]

\* the resolution that follows a second alias row
resolveNameTwoHops(token, lookup, key) ==
  IF key = <<>>
  THEN [canonical |-> Undefined, issue |-> <<Issue("UnknownName", token, "Empty name token")>>]
  ELSE NameFound(token,
         MapGet(lookup.usersByKey,
                normalizeKey(AliasResolved(AliasResolved(token, MapGet(lookup.nameAliasByKey, key)),
                               MapGet(lookup.nameAliasByKey,
                                      normalizeKey(AliasResolved(token, MapGet(lookup.nameAliasByKey, key))))))))

\* resolveName once the key of the token is known
resolveNameByKey(token, lookup, key) ==
  IF key = <<>>
  THEN [canonical |-> Undefined, issue |-> <<Issue("UnknownName", token, "Empty name token")>>]
  ELSE NameFound(token,
         MapGet(lookup.usersByKey,
                normalizeKey(AliasResolved(token, MapGet(lookup.nameAliasByKey, key)))))

resolveName(token, lookup) == resolveNameByKey(token, lookup, normalizeKey(token))

\* the end of resolveBoss, from the key of the alias-resolved token
BossFound(token, lookup, bossKey) ==
  IF bossKey \notin DOMAIN lookup.bossesByKey
  THEN [canonical |-> Undefined, points |-> 0,
        issue |-> <<Issue("UnknownBoss", token, "Unknown boss token")>>]
  ELSE [canonical |-> lookup.bossesByKey[bossKey].boss,
        points |-> lookup.bossesByKey[bossKey].points,
        issue |-> <<>>]

\* the resolution that looks for the token among the bosses before the aliases
resolveBossDirectFirst(token, lookup, key) ==
  IF key = <<>>
  THEN [canonical |-> Undefined, points |-> 0,
        issue |-> <<Issue("UnknownBoss", token, "Empty boss token")>>]
  ELSE IF key \in DOMAIN lookup.bossesByKey
  THEN BossFound(token, lookup, key)
  ELSE BossFound(token, lookup,
         normalizeBossKey(AliasResolved(token, MapGet(lookup.bossAliasByKey, key))))

\* resolveBoss once the key of the token is known
resolveBossByKey(token, lookup, key) ==
  IF key = <<>>
  THEN [canonical |-> Undefined, points |-> 0,
        issue |-> <<Issue("UnknownBoss", token, "Empty boss token")>>]
  ELSE BossFound(token, lookup,
         normalizeBossKey(AliasResolved(token, MapGet(lookup.bossAliasByKey, key))))

resolveBoss(token, lookup) == resolveBossByKey(token, lookup, normalizeBossKey(token))

\* /^\d+(?:\.\d+)?$/
IsNumberText(key) ==
  LET dots == {i \in 1..Len(key) : key[i] = "."}
  IN /\ Len(key) >= 1
     /\ \A i \in 1..Len(key) : key[i] \in Digits \/ key[i] = "."
     /\ \/ dots = {}
        \/ \E d \in 2..(Len(key) - 1) : dots = {d}

\* looksBossLikeToken once the key of the token is known
LooksBossLikeKey(key) ==
  IF key = <<>> THEN FALSE
  ELSE IF key[1] = "/" THEN TRUE
  ELSE IsNumberText(key)

looksBossLikeToken(token) == LooksBossLikeKey(normalizeBossKey(token))

\* the matches of /\(([^)]*)\)/g as <<open, close>> index pairs, left to right
RECURSIVE ParenMatches(_, _)
ParenMatches(s, from) ==
  LET opens == {i \in from..Len(s) : s[i] = "("}
  IN IF opens = {} THEN <<>>
     ELSE LET open == MinOf(opens)
              closes == {j \in (open + 1)..Len(s) : s[j] = ")"}
          IN IF closes = {} THEN <<>>
             ELSE <<<<open, MinOf(closes)>>>> \o ParenMatches(s, MinOf(closes) + 1)

\* the characters of the token at the given indexes, in order
CharsAt(token, outside) == [k \in 1..Len(outside) |-> token[outside[k]]]

\* the indexes of the token outside the parenthesised spans, in order
OutsideSpans(token, spans) ==
  SortedSeq({i \in 1..Len(token) : \A k \in 1..Len(spans) : i < spans[k][1] \/ i > spans[k][2]})

stripBossToken(token) == trim(CharsAt(token, OutsideSpans(token, ParenMatches(token, 1))))

brucy == <<"b","r","u","c","y">>
brucybonus == brucy \o <<"b","o","n","u","s">>
fail == <<"f","a","i","l">>
comp == <<"c","o","m","p">>
double == <<"d","o","u","b","l","e">>
doublepoints == double \o <<"p","o","i","n","t","s">>
\* MODIFIER_SYNONYMS is a plain object: the lookup also finds what it inherits
\* from Object.prototype, and "constructor" is the inherited key the tokenizer
\* (lower case letters and digits only) can produce
constructor == <<"c","o","n","s","t","r","u","c","t","o","r">>

\* MODIFIER_SYNONYMS[token]
ModifierSynonymCompDoubles(token) ==
  CASE token \in {brucy, brucybonus} -> "bonus5"
    [] token \in {fail} -> "half"
    [] token \in {double, doublepoints, comp} -> "double"
    [] token = constructor -> "inherited"
    [] OTHER -> "undefined"

ModifierSynonym(token) ==
  CASE token \in {brucy, brucybonus} -> "bonus5"
    [] token \in {fail, comp} -> "half"
    [] token \in {double, doublepoints} -> "double"
    [] token = constructor -> "inherited"
    [] OTHER -> "undefined"

\* the modifier tokens of the boss token, in order
ModifierTokensIn(rawBossToken, spans) ==
  Flatten([k \in 1..Len(spans) |->
    SplitOn(toLowerCase(trim(SubSeq(rawBossToken, spans[k][1] + 1, spans[k][2] - 1))),
            \* split(/[^a-z0-9]+/): every other character of the text separates
            Range(toLowerCase(rawBossToken)) \ AlnumLower)])

ModifierTokens(rawBossToken) == ModifierTokensIn(rawBossToken, ParenMatches(rawBossToken, 1))

\* pointsMultiplier is kept in halves: 2 stands for 1, 1 for 0.5, 4 for 2
MultiplierOne == 2
Halve(m) == m \div 2
Twice(m) == m * 2

\* the loop of applyBossModifiers over the modifier tokens
applyModifierTokens(rawBossToken, parsed, issues, tokens) ==
  LET canonicalModifiers == {ModifierSynonym(tokens[i]) : i \in 1..Len(tokens)} \ {"undefined"}
      unknown == Flatten([i \in 1..Len(tokens) |->
                   IF ModifierSynonym(tokens[i]) = "undefined"
                   THEN <<Issue("UnknownModifier", tokens[i], "Unknown boss modifier")>>
                   ELSE <<>>])
      bonus == IF "bonus5" \in canonicalModifiers THEN parsed.pointsBonus + 5 ELSE parsed.pointsBonus
      halved == IF "half" \in canonicalModifiers
                THEN Halve(parsed.pointsMultiplier) ELSE parsed.pointsMultiplier
      doubled == IF "double" \in canonicalModifiers THEN Twice(halved) ELSE halved
  IN [bossToken |-> stripBossToken(rawBossToken),
      parsed |-> [parsed EXCEPT !.pointsBonus = bonus, !.pointsMultiplier = doubled],
      issues |-> issues \o unknown]

applyBossModifiers(rawBossToken, parsed, issues) ==
  applyModifierTokens(rawBossToken, parsed, issues, ModifierTokens(rawBossToken))

notWord == <<"n","o","t">>

\* the name tokens used as split point: the index of the NOT token, or 0
SplitAt(notIndexes) == IF Len(notIndexes) = 1 THEN notIndexes[1] ELSE 0

\* the loop over the resolved tokens: a token with an issue is skipped (continue)
\* and the canonical names of the others are pushed in order
ResolvedNamesUntilIssue(rs) ==
  LET bad == {i \in 1..Len(rs) : rs[i].issue # <<>>}
      upto == IF bad = {} THEN Len(rs) ELSE MinOf(bad) - 1
  IN [i \in 1..upto |-> rs[i].canonical]

ResolvedNames(rs) ==
  Flatten([i \in 1..Len(rs) |-> IF rs[i].issue = <<>> THEN <<rs[i].canonical>> ELSE <<>>])

\* names that stay after the names of both lists are removed
RemoveOverlapNothing(names, overlap) == names

RemoveOverlap(names, overlap) ==
  SelectSeq(names, LAMBDA name : normalizeKey(name) \notin overlap)

\* the indexes of the NOT tokens among the name tokens, in order
NotIndexes(nameTokens) ==
  SortedSeq({i \in 1..Len(nameTokens) : toLowerCase(nameTokens[i]) = notWord})

MultipleNot(notIndexes) ==
  IF Len(notIndexes) > 1
  THEN <<Issue("MultipleNotTokens", Undefined, "More than one NOT token")>>
  ELSE <<>>

AddTokens(nameTokens, splitAt) ==
  IF splitAt = 0 THEN nameTokens ELSE SubSeq(nameTokens, 1, splitAt - 1)
SubtractTokens(nameTokens, splitAt) ==
  IF splitAt = 0 THEN <<>> ELSE SubSeq(nameTokens, splitAt + 1, Len(nameTokens))

\* resolveName over the tokens of one side
ResolveAll(tokens, lookup) == [i \in 1..Len(tokens) |-> resolveName(tokens[i], lookup)]
IssuesOf(rs) == Flatten([i \in 1..Len(rs) |-> rs[i].issue])

\* the normalized keys of the names of both sides
Overlap(dedupedAdd, dedupedSubtract) ==
  {normalizeKey(n) : n \in Range(dedupedAdd)} \cap {normalizeKey(n) : n \in Range(dedupedSubtract)}

\* the end of applyNamesWithNotRule, from the deduplicated names of both sides
NamesOfDeduped(dedupedAdd, dedupedSubtract, issues) ==
  [addNames |-> RemoveOverlap(dedupedAdd, Overlap(dedupedAdd, dedupedSubtract)),
   subtractNames |-> RemoveOverlap(dedupedSubtract, Overlap(dedupedAdd, dedupedSubtract)),
   issues |-> issues]

NamesOfSides(addResolved, subResolved, issues) ==
  NamesOfDeduped(dedupePreserveOrder(ResolvedNames(addResolved)),
                 dedupePreserveOrder(ResolvedNames(subResolved)),
                 issues \o IssuesOf(addResolved) \o IssuesOf(subResolved))

\* applyNamesWithNotRule once the NOT tokens are located
applyNamesSplitAt(nameTokens, lookup, issues, notIndexes) ==
  NamesOfSides(ResolveAll(AddTokens(nameTokens, SplitAt(notIndexes)), lookup),
               ResolveAll(SubtractTokens(nameTokens, SplitAt(notIndexes)), lookup),
               issues \o MultipleNot(notIndexes))

applyNamesWithNotRule(nameTokens, lookup, issues) ==
  applyNamesSplitAt(nameTokens, lookup, issues, NotIndexes(nameTokens))

\* the assignments that end applyBossAndNames
BossAndNamesApplied(mods, bossResolved, names) ==
  [mods.parsed EXCEPT
     !.bossRaw = mods.bossToken,
     !.bossCanonical = bossResolved.canonical,
     !.addNames = names.addNames,
     !.subtractNames = names.subtractNames,
     !.issues = names.issues]

\* applyBossAndNames after resolveBoss
applyNamesAfterBoss(mods, bossResolved, nameTokens, lookup) ==
  BossAndNamesApplied(mods, bossResolved,
    applyNamesWithNotRule(nameTokens, lookup, mods.issues \o bossResolved.issue))

\* applyBossAndNames after applyBossModifiers
applyBossAfterModifiers(mods, nameTokens, lookup) ==
  applyNamesAfterBoss(mods, resolveBoss(mods.bossToken, lookup), nameTokens, lookup)

applyBossAndNames(parsed, bossTokenRaw, nameTokens, lookup, issues) ==
  applyBossAfterModifiers(applyBossModifiers(bossTokenRaw, parsed, issues), nameTokens, lookup)

(***************************************************************************)
(* parser.ts: the two dialects                                             *)
(***************************************************************************)
NewParsed(rawText, lineNumber) ==
  [lineNumber |-> lineNumber,
   rawText |-> rawText,
   timestampRaw |-> <<>>,
   timestampUtcMillis |-> NoMillis,
   author |-> Undefined,
   bossRaw |-> Undefined,
   bossCanonical |-> Undefined,
   pointsBonus |-> 0,
   pointsMultiplier |-> MultiplierOne,
   addNames |-> <<>>,
   subtractNames |-> <<>>,
   issues |-> <<>>]

\* the timestamp step that reports a failure twice
WithTimestampReportedTwice(parsed, stamp, zone) ==
  IF parseTimestampToUtcMillis(stamp, zone) = NoMillis
  THEN [parsed EXCEPT !.timestampRaw = <<stamp>>,
                      !.issues = <<Issue("InvalidTimestamp", Undefined, "Unable to parse timestamp"),
                                   Issue("InvalidTimestamp", Undefined, "Unable to parse timestamp")>>]
  ELSE [parsed EXCEPT !.timestampRaw = <<stamp>>,
                      !.timestampUtcMillis = parseTimestampToUtcMillis(stamp, zone)]

\* the timestamp step shared by both dialects: the parsed record and the issues
WithTimestamp(parsed, stamp, zone) ==
  LET timestampUtcMillis == parseTimestampToUtcMillis(stamp, zone)
  IN IF timestampUtcMillis = NoMillis
     THEN [parsed EXCEPT !.timestampRaw = <<stamp>>,
                         !.issues = <<Issue("InvalidTimestamp", Undefined, "Unable to parse timestamp")>>]
     ELSE [parsed EXCEPT !.timestampRaw = <<stamp>>,
                         !.timestampUtcMillis = timestampUtcMillis]

\* the payload read with its last word as the boss token
parseOldPayloadBossLast(parsed, lookup, author, words) ==
  IF words = <<>>
  THEN [parsed EXCEPT !.author = author,
          !.issues = Append(@, Issue("UnsupportedFormat", Undefined, "Payload is empty"))]
  ELSE applyBossAndNames([parsed EXCEPT !.author = author],
                         words[Len(words)], SubSeq(words, 1, Len(words) - 1), lookup, parsed.issues)

\* parseOldFormatLine from the words of the payload
parseOldPayload(parsed, lookup, author, words) ==
  IF words = <<>>
  THEN [parsed EXCEPT !.author = author,
          !.issues = Append(@, Issue("UnsupportedFormat", Undefined, "Payload is empty"))]
  ELSE applyBossAndNames([parsed EXCEPT !.author = author],
                         words[1], Tail(words), lookup, parsed.issues)

\* the remainder read as a payload without author when it has no ":"
parseOldRemainderLenient(parsed, lookup, remainder, colons) ==
  IF colons = {}
  THEN parseOldPayload(parsed, lookup, <<>>, splitWords(trim(remainder)))
  ELSE parseOldPayload(parsed, lookup,
         trim(SubSeq(remainder, 1, MinOf(colons) - 1)),
         splitWords(trim(SubSeq(remainder, MinOf(colons) + 1, Len(remainder)))))

\* parseOldFormatLine from match[2] of the line and the parsed timestamp
parseOldRemainder(parsed, lookup, remainder, colons) ==
  IF colons = {}
  THEN [parsed EXCEPT !.issues =
          Append(@, Issue("UnsupportedFormat", Undefined, "Missing second ':' separator"))]
  ELSE parseOldPayload(parsed, lookup,
         trim(SubSeq(remainder, 1, MinOf(colons) - 1)),
         splitWords(trim(SubSeq(remainder, MinOf(colons) + 1, Len(remainder)))))

\* the positions of ":" in the remainder
ColonsOf(remainder) == {i \in 1..Len(remainder) : remainder[i] = ":"}

parseOldFormatLine(parsed0, zone, lookup, rawText) ==
  parseOldRemainder(WithTimestamp(parsed0, rawText.stamp, zone), lookup,
                    OldRemainder(rawText.rest), ColonsOf(OldRemainder(rawText.rest)))

isLikelyNameTailToken(token, lookup) ==
  IF toLowerCase(token) = notWord THEN TRUE
  ELSE IF resolveName(token, lookup).canonical # Undefined THEN TRUE
  ELSE ~looksBossLikeToken(stripBossToken(token))

\* isBossCandidateToken once the clean token and its key are known
isBossCandidateKey(cleanToken, lookup, key) ==
  IF key = <<>> THEN FALSE
  ELSE IF key \in DOMAIN lookup.bossAliasByKey \/ key \in DOMAIN lookup.bossesByKey THEN TRUE
  ELSE looksBossLikeToken(cleanToken)

isBossCandidateClean(cleanToken, lookup) ==
  isBossCandidateKey(cleanToken, lookup, normalizeBossKey(cleanToken))

isBossCandidateToken(token, lookup) == isBossCandidateClean(stripBossToken(token), lookup)

\* the index of the boss token among the tokens, or 0 when there is no candidate
Candidates(tokens, lookup) == {i \in 1..Len(tokens) : isBossCandidateToken(tokens[i], lookup)}

\* the first index of the maximal suffix of name-tail tokens
TailStart(tokens, lookup) ==
  MinOf({i \in 1..(Len(tokens) + 1) :
           \A j \in i..Len(tokens) : isLikelyNameTailToken(tokens[j], lookup)})

\* the last candidate, wherever the tail of names starts
ChooseLast(candidates, tailStart) == IF candidates = {} THEN 0 ELSE MaxOf(candidates)

\* the choice among the candidates, given where the tail of names starts
ChooseAmong(candidates, tailStart) ==
  LET beforeTail == {i \in candidates : i < tailStart}
  IN IF candidates = {} THEN 0
     ELSE IF beforeTail # {} THEN MaxOf(beforeTail)
     ELSE MaxOf(candidates)

chooseBossIndexForNewFormat(tokens, lookup) ==
  ChooseAmong(Candidates(tokens, lookup), TailStart(tokens, lookup))

\* the split that takes only the token next to the boss token as author
parseNewAtBossOneWordAuthor(parsed, lookup, words, bossIndex) ==
  IF bossIndex = 0
  THEN [parsed EXCEPT !.issues =
          Append(@, Issue("UnsupportedFormat", Undefined, "Unable to determine boss token"))]
  ELSE applyBossAndNames(
         [parsed EXCEPT !.author = IF bossIndex = 1 THEN <<>> ELSE words[bossIndex - 1]],
         words[bossIndex], SubSeq(words, bossIndex + 1, Len(words)),
         lookup, parsed.issues)

\* parseNewFormatLine from the index chosen for the boss token
parseNewAtBoss(parsed, lookup, words, bossIndex) ==
  IF bossIndex = 0
  THEN [parsed EXCEPT !.issues =
          Append(@, Issue("UnsupportedFormat", Undefined, "Unable to determine boss token"))]
  ELSE applyBossAndNames(
         [parsed EXCEPT !.author = trim(Join(SubSeq(words, 1, bossIndex - 1)))],
         words[bossIndex], SubSeq(words, bossIndex + 1, Len(words)),
         lookup, parsed.issues)

\* parseNewFormatLine from the words of the tail
parseNewWords(parsed, lookup, words) ==
  IF words = <<>>
  THEN [parsed EXCEPT !.issues =
          Append(@, Issue("UnsupportedFormat", Undefined, "Payload is empty"))]
  ELSE parseNewAtBoss(parsed, lookup, words, chooseBossIndexForNewFormat(words, lookup))

parseNewFormatLine(parsed0, zone, lookup, rawText) ==
  parseNewWords(WithTimestamp(parsed0, rawText.stamp, zone), lookup,
                splitWords(trim(rawText.rest)))

parseLine(rawText, lineNumber, zone, lookup) ==
  IF OldFormatMatches(rawText)
  THEN parseOldFormatLine(NewParsed(rawText, lineNumber), zone, lookup, rawText)
  ELSE IF NewFormatMatches(rawText)
  THEN parseNewFormatLine(NewParsed(rawText, lineNumber), zone, lookup, rawText)
  ELSE [NewParsed(rawText, lineNumber) EXCEPT !.issues =
          <<Issue("UnsupportedFormat", Undefined, "Line does not match supported formats")>>]

(***************************************************************************)
(* compute.ts: the weekly summary                                          *)
(***************************************************************************)
\* a.localeCompare(b) < 0 for the letters-and-punctuation strings of the model:
\* letters compare without case first (punctuation before letters); strings
\* equal without case order lower case before upper case at the first difference
LowerRank(c) ==
  IF \E i \in 1..26 : LowerChars[i] = c
  THEN CHOOSE i \in 1..26 : LowerChars[i] = c
  ELSE 0

CharRank(c) == LowerRank(toLowerChar(c))

RECURSIVE LexLess(_, _)
\* the comparison at the first characters, of ranks rankA and rankB
LexLessRanked(a, b, rankA, rankB) ==
  IF rankA # rankB THEN rankA < rankB ELSE LexLess(Tail(a), Tail(b))

LexLess(a, b) ==
  IF b = <<>> THEN FALSE
  ELSE IF a = <<>> THEN TRUE
  ELSE LexLessRanked(a, b, CharRank(Head(a)), CharRank(Head(b)))

RECURSIVE CaseLess(_, _)
CaseLess(a, b) ==
  IF a = <<>> \/ b = <<>> THEN FALSE
  ELSE IF Head(a) # Head(b) THEN Head(a) = toLowerChar(Head(a)) /\ Head(b) # toLowerChar(Head(b))
  ELSE CaseLess(Tail(a), Tail(b))

LocaleLess(a, b) == LexLess(a, b) \/ (~LexLess(b, a) /\ CaseLess(a, b))

RECURSIVE SumSeq(_)
SumSeq(ns) == IF ns = <<>> THEN 0 ELSE Head(ns) + SumSeq(Tail(ns))

CountIn(names, name) == Cardinality({i \in 1..Len(names) : names[i] = name})

\* the levels with the thresholds as exclusive upper bounds
activityLevelExclusive(points, thresholds) ==
  IF points < thresholds.lowMax THEN "Low"
  ELSE IF points < thresholds.mediumMax THEN "Medium"
  ELSE "High"

activityLevel(points, thresholds) ==
  IF points <= thresholds.lowMax THEN "Low"
  ELSE IF points <= thresholds.mediumMax THEN "Medium"
  ELSE "High"

\* new Map(bosses.map((boss) => [boss.boss, boss.points]))
BossPointsMap(bossesInput) ==
  MapFrom([i \in 1..Len(bossesInput) |-> bossesInput[i].boss], [i \in 1..Len(bossesInput) |-> bossesInput[i].points])

\* Number.isInteger(rawPoints) ? rawPoints : Math.ceil(rawPoints), rawPoints given in halves
RoundDownHalves(rawHalves) == rawHalves \div 2

RoundUpHalves(rawHalves) ==
  IF rawHalves % 2 = 0 THEN rawHalves \div 2 ELSE (rawHalves + 1) \div 2

\* the points of one line
LinePoints(line, bossPointsByName) ==
  LET basePoints == IF line.bossCanonical \in DOMAIN bossPointsByName
                    THEN bossPointsByName[line.bossCanonical] ELSE 0
  IN RoundUpHalves((basePoints + line.pointsBonus) * line.pointsMultiplier)

\* a loop that skips only the lines without boss
CountedWithIssues(line) == ~Falsy(line.bossCanonical)

\* the lines the loop does not skip
Counted(line) == line.issues = <<>> /\ ~Falsy(line.bossCanonical)

\* what the loop over the lines adds to user name for boss (points, then count)
BossPointsOf(lines, bossPointsByName, name, boss) ==
  SumSeq([i \in 1..Len(lines) |->
    IF Counted(lines[i]) /\ lines[i].bossCanonical = boss
    THEN LinePoints(lines[i], bossPointsByName)
           * (CountIn(lines[i].addNames, name) - CountIn(lines[i].subtractNames, name))
    ELSE 0])

BossCountOf(lines, name, boss) ==
  SumSeq([i \in 1..Len(lines) |->
    IF Counted(lines[i]) /\ lines[i].bossCanonical = boss
    THEN CountIn(lines[i].addNames, name) - CountIn(lines[i].subtractNames, name)
    ELSE 0])

\* bossPoints and bossCounts are plain objects ({}): for a boss whose name is a
\* key of Object.prototype the first read row.bossPoints[boss] is the inherited
\* function, which is truthy, so || 0 does not replace it. function + number and
\* string + number are strings (TextValue), function - number and
\* string - number are NaN (NaNValue), and NaN || 0 is 0
InheritedKeys == {constructor}
TextValue == 0 - 1000
NaNValue == 0 - 1001
InheritedValue == 0 - 1002
\* (cell || 0) + amount
CellPlus(cell, amount) ==
  IF cell \in {InheritedValue, TextValue} THEN TextValue
  ELSE IF cell = NaNValue THEN amount
  ELSE cell + amount
\* (cell || 0) - amount
CellMinus(cell, amount) ==
  IF cell \in {InheritedValue, TextValue} THEN NaNValue
  ELSE IF cell = NaNValue THEN 0 - amount
  ELSE cell - amount
RECURSIVE CellPlusTimes(_, _, _)
CellPlusTimes(cell, amount, times) ==
  IF times = 0 THEN cell ELSE CellPlusTimes(CellPlus(cell, amount), amount, times - 1)
RECURSIVE CellMinusTimes(_, _, _)
CellMinusTimes(cell, amount, times) ==
  IF times = 0 THEN cell ELSE CellMinusTimes(CellMinus(cell, amount), amount, times - 1)
\* the entry of an inherited key after the lines from index on; amounts[i] is what
\* line i adds (its points, or 1 for the counts)
RECURSIVE InheritedCell(_, _, _, _, _, _)
InheritedCell(lines, amounts, name, boss, index, cell) ==
  IF index > Len(lines) THEN cell
  ELSE IF ~(Counted(lines[index]) /\ lines[index].bossCanonical = boss)
  THEN InheritedCell(lines, amounts, name, boss, index + 1, cell)
  ELSE InheritedCell(lines, amounts, name, boss, index + 1,
         CellMinusTimes(CellPlusTimes(cell, amounts[index], CountIn(lines[index].addNames, name)),
                        amounts[index], CountIn(lines[index].subtractNames, name)))

\* the bosses that get an entry in the user's bossPoints / bossCounts
BossesOf(lines, name) ==
  {lines[i].bossCanonical : i \in {j \in 1..Len(lines) :
     Counted(lines[j]) /\ name \in Range(lines[j].addNames) \cup Range(lines[j].subtractNames)}}

SummaryRow(lines, bossPointsByName, name, thresholds) ==
  LET bossSet == BossesOf(lines, name)
      bossPoints == [b \in bossSet |->
                      IF b \in InheritedKeys
                      THEN InheritedCell(lines, [i \in 1..Len(lines) |-> LinePoints(lines[i], bossPointsByName)],
                                         name, b, 1, InheritedValue)
                      ELSE BossPointsOf(lines, bossPointsByName, name, b)]
      totalPoints == SumSeq([i \in 1..Len(lines) |->
                       IF Counted(lines[i])
                       THEN BossPointsOf(<<lines[i]>>, bossPointsByName, name, lines[i].bossCanonical)
                       ELSE 0])
  IN [name |-> name,
      totalPoints |-> totalPoints,
      activityLevel |-> activityLevel(totalPoints, thresholds),
      streak |-> 1,
      last3WeeksTotal |-> 0,
      bossPoints |-> bossPoints,
      bossCounts |-> [b \in bossSet |->
                        IF b \in InheritedKeys
                        THEN InheritedCell(lines, [i \in 1..Len(lines) |-> 1], name, b, 1, InheritedValue)
                        ELSE BossCountOf(lines, name, b)]]

\* sort((a, b) => b.totalPoints - a.totalPoints || a.name.localeCompare(b.name))
RowBefore(a, b) ==
  \/ a.totalPoints > b.totalPoints
  \/ a.totalPoints = b.totalPoints /\ LocaleLess(a.name, b.name)

RECURSIVE SortRows(_)
\* the row the sort puts first
FirstRow(rows) == CHOOSE r \in rows : \A o \in rows \ {r} : RowBefore(r, o)

SortRows(rows) ==
  IF rows = {} THEN <<>>
  ELSE <<FirstRow(rows)>> \o SortRows(rows \ {FirstRow(rows)})

computeWeeklySummary(lines, bossPointsByName, users, thresholds) ==
  SortRows({SummaryRow(lines, bossPointsByName, u, thresholds) : u \in Range(users)})

(***************************************************************************)
(* suggest.ts: suggestions for an unknown token                            *)
(***************************************************************************)
Min3(x, y, z) == MinOf({x, y, z})

RECURSIVE LevRowFrom(_, _, _, _)
\* the row of distances after one more character ch of the first string: cur
\* holds its first columns, prev is the row before
LevRowFrom(prev, ch, b, cur) ==
  IF Len(cur) = Len(prev) THEN cur
  ELSE LevRowFrom(prev, ch, b,
         Append(cur, Min3(prev[Len(cur) + 1] + 1,
                          cur[Len(cur)] + 1,
                          prev[Len(cur)] + (IF b[Len(cur)] = ch THEN 0 ELSE 1))))

RECURSIVE LevFrom(_, _, _)
LevFrom(a, b, row) ==
  IF a = <<>> THEN row[Len(row)]
  ELSE LevFrom(Tail(a), b, LevRowFrom(row, Head(a), b, <<row[1] + 1>>))

\* levenshtein.get(a, b): the number of insertions, deletions and substitutions
levenshtein(a, b) == LevFrom(a, b, [j \in 1..(Len(b) + 1) |-> j - 1])

\* entry i goes before entry j: a.distance - b.distance || localeCompare, and the
\* sort keeps the order of entries that compare equal
EntryBefore(candidates, distances, i, j) ==
  \/ distances[i] < distances[j]
  \/ /\ distances[i] = distances[j]
     /\ \/ LocaleLess(candidates[i], candidates[j])
        \/ ~LocaleLess(candidates[j], candidates[i]) /\ i < j

\* .filter(distance <= 2).sort(...): the positions kept, in sorted order
SortedEntries(candidates, distances, kept) ==
  [k \in 1..Cardinality(kept) |->
     CHOOSE i \in kept : Cardinality({j \in kept : EntryBefore(candidates, distances, j, i)}) = k - 1]

\* .slice(0, limit).map((entry) => entry.candidate)
SliceCandidates(candidates, order, limit) ==
  [k \in 1..(IF Len(order) < limit THEN Len(order) ELSE limit) |-> candidates[order[k]]]

\* suggestions that keep every candidate whatever its distance
SuggestAnyDistance(candidates, distances, limit) ==
  SliceCandidates(candidates,
                  SortedEntries(candidates, distances, {i \in 1..Len(candidates) : TRUE}),
                  limit)

SuggestByDistance(candidates, distances, limit) ==
  SliceCandidates(candidates,
                  SortedEntries(candidates, distances, {i \in 1..Len(candidates) : distances[i] <= 2}),
                  limit)

getNameSuggestions(token, candidates, limit) ==
  SuggestByDistance(candidates,
                    [i \in 1..Len(candidates) |->
                       levenshtein(normalizeKey(token), normalizeKey(candidates[i]))],
                    limit)

getBossSuggestions(token, candidates, limit) ==
  SuggestByDistance(candidates,
                    [i \in 1..Len(candidates) |->
                       levenshtein(normalizeBossKey(token), normalizeBossKey(candidates[i]))],
                    limit)

\* LineResolver: the suggestions for the first issue of the current line
ResolverSuggestions(currentParsed, canonicalNames, canonicalBosses) ==
  IF currentParsed.issues = <<>> THEN <<>>
  ELSE IF currentParsed.issues[1].type = "UnknownName"
  THEN getNameSuggestions(currentParsed.issues[1].token, canonicalNames, 5)
  ELSE IF currentParsed.issues[1].type = "UnknownBoss"
  THEN getBossSuggestions(currentParsed.issues[1].token, canonicalBosses, 5)
  ELSE <<>>

(***************************************************************************)
(* compute.ts: streaks                                                     *)
(***************************************************************************)
\* Array.indexOf, 0-based, -1 when absent
IndexOf(seq, x) ==
  IF \E i \in 1..Len(seq) : seq[i] = x
  THEN MinOf({i \in 1..Len(seq) : seq[i] = x}) - 1
  ELSE 0 - 1

\* the streak of a row given the running streak and whether the level repeats
NextStreakKeepsCounting(streak, sameLevel) == streak + 1

NextStreak(streak, sameLevel) == IF sameLevel THEN streak + 1 ELSE 1

\* rows.sort(...) of one user's rows: row i goes before row j (the sort is stable)
StreakRowBefore(allTotals, weeksOrder, i, j) ==
  LET wi == IndexOf(weeksOrder, allTotals[i].weekId)
      wj == IndexOf(weeksOrder, allTotals[j].weekId)
  IN \/ wi < wj
     \/ wi = wj /\ allTotals[i].weekId < allTotals[j].weekId
     \/ wi = wj /\ allTotals[i].weekId = allTotals[j].weekId /\ i < j

RECURSIVE SortStreakRows(_, _, _)
SortStreakRows(allTotals, weeksOrder, mine) ==
  IF mine = {} THEN <<>>
  ELSE LET first == CHOOSE i \in mine :
                      \A j \in mine \ {i} : StreakRowBefore(allTotals, weeksOrder, i, j)
       IN <<first>> \o SortStreakRows(allTotals, weeksOrder, mine \ {first})

\* the indexes of one user's rows in the order of the sort
UserOrder(allTotals, weeksOrder, name) ==
  SortStreakRows(allTotals, weeksOrder, {i \in 1..Len(allTotals) : allTotals[i].name = name})

\* the walk over one user's sorted rows: the streak given to the k-th of them
RECURSIVE StreakAt(_, _, _)
StreakAt(allTotals, order, k) ==
  IF k = 1
  THEN NextStreak(0, allTotals[order[1]].activityLevel = "")
  ELSE NextStreak(StreakAt(allTotals, order, k - 1),
                  allTotals[order[k]].activityLevel = allTotals[order[k-1]].activityLevel)

recomputeStreaks(allTotals, weeksOrder) ==
  [i \in 1..Len(allTotals) |->
     LET order == UserOrder(allTotals, weeksOrder, allTotals[i].name)
         k == CHOOSE k \in 1..Len(order) : order[k] = i
     IN [allTotals[i] EXCEPT !.streak = StreakAt(allTotals, order, k)]]

(***************************************************************************)
(* week.ts                                                                 *)
(***************************************************************************)
\* A date is the number of its day, day 0 being a Sunday; NoDate is the empty
\* string of a cleared date input. A week id is the date it formats, and week ids
\* compare (localeCompare of yyyy-MM-dd texts) as their dates do.
NoDate == 0 - 1000

weekBoundsSevenDays(date) ==
  [startUtcMillis |-> date * MsPerDay, endUtcMillis |-> (date + 7) * MsPerDay]

weekBoundsFromUtcSunday(date) ==
  [startUtcMillis |-> date * MsPerDay,
   endUtcMillis |-> (date + 6) * MsPerDay + (MsPerDay - 1)]

toWeekId(date) == date

(***************************************************************************)
(* Cells of a sheet: numbers are written with String and read with Number  *)
(***************************************************************************)
DigitSeq == <<"0", "1", "2", "3", "4", "5", "6", "7", "8", "9">>

RECURSIVE NatToString(_)
NatToString(n) ==
  IF n < 10 THEN <<DigitSeq[n + 1]>>
  ELSE NatToString(n \div 10) \o <<DigitSeq[(n % 10) + 1]>>

String(n) == IF n < 0 THEN <<"-">> \o NatToString(0 - n) ELSE NatToString(n)

RECURSIVE StringToNat(_)
StringToNat(s) ==
  IF s = <<>> THEN 0
  ELSE 10 * StringToNat(SubSeq(s, 1, Len(s) - 1))
         + (CHOOSE d \in 0..9 : DigitSeq[d + 1] = s[Len(s)])

\* Number of a cell holding a decimal integer (Number("") is 0)
Number(s) ==
  IF s = <<>> THEN 0
  ELSE IF Head(s) = "-" THEN 0 - StringToNat(Tail(s))
  ELSE StringToNat(s)

\* value || fallback on a number that may be missing: 0 is falsy
OrElse(present, value, fallback) == IF present /\ value # 0 THEN value ELSE fallback

(***************************************************************************)
(* sheets.ts: SheetsClient.request                                         *)
(***************************************************************************)
toUpperChar(c) ==
  IF \E i \in 1..26 : LowerChars[i] = c
  THEN UpperChars[CHOOSE i \in 1..26 : LowerChars[i] = c]
  ELSE c
toUpperCase(s) == [i \in 1..Len(s) |-> toUpperChar(s[i])]

\* a retry on every failing status
shouldRetryAnyStatus(status) == TRUE

shouldRetryStatus(status) == status = 429 \/ status = 500 \/ status = 503

\* the header as text (<<>> when there is none); NoSeconds is null
NoSeconds == 0 - 1
parseRetryAfterSeconds(value) ==
  IF value = <<>> THEN NoSeconds
  ELSE IF \A i \in 1..Len(value) : value[i] \in Digits
  THEN (IF StringToNat(value) > 0 THEN StringToNat(value) ELSE NoSeconds)
  ELSE NoSeconds

RECURSIVE PowerOfTwo(_)
PowerOfTwo(n) == IF n = 0 THEN 1 ELSE 2 * PowerOfTwo(n - 1)

\* response.ok
ResponseOk(status) == status >= 200 /\ status <= 299
\* (init?.method || "GET").toUpperCase(); the method not given is <<>>
MethodOf(method) == toUpperCase(IF method = <<>> THEN <<"G","E","T">> ELSE method)

NoRequest ==
  [phase |-> "idle", method |-> <<>>, attempt |-> 0, sent |-> 0, status |-> 0,
   backoffMs |-> 0, result |-> "none"]

\* what the operator's browser may send and the server may answer
MethodPool == {<<>>, <<"G","E","T">>, <<"g","e","t">>, <<"P","U","T">>, <<"P","O","S","T">>}
StatusPool == {200, 204, 400, 401, 404, 429, 500, 503}
RetryAfterPool == {<<>>, <<"2">>, <<"0">>, <<"s","o","o","n">>}
JitterPool == {0, 249}

\* request(url, init) is called: fetch is sent
RequestCall(method) ==
  /\ rq.phase = "idle"
  /\ rq' = [NoRequest EXCEPT !.phase = "fetching", !.method = method, !.sent = 1]
  /\ UNCHANGED <<parseVars, aggVars, streakVars, windowVars, listVars, nowMs, limits, wizardVars>>

\* fetch resolves with a response
FetchAnswers(status, retryAfterHeader, jitter) ==
  /\ rq.phase = "fetching"
  /\ rq' =
       IF /\ ~ResponseOk(status)
          /\ MethodOf(rq.method) = <<"G","E","T">>
          /\ shouldRetryStatus(status)
          /\ rq.attempt < 4
       THEN [rq EXCEPT !.phase = "sleeping", !.status = status,
                       !.backoffMs = IF parseRetryAfterSeconds(retryAfterHeader) # NoSeconds
                                     THEN parseRetryAfterSeconds(retryAfterHeader) * 1000
                                     ELSE 500 * PowerOfTwo(rq.attempt) + jitter]
       ELSE [rq EXCEPT !.phase = "done", !.status = status,
                       !.result = IF ~ResponseOk(status) THEN "error"
                                  ELSE IF status = 204 THEN "empty" ELSE "json"]
  /\ UNCHANGED <<parseVars, aggVars, streakVars, windowVars, listVars, nowMs, limits, wizardVars>>

\* fetch rejects (the network fails): the call throws
FetchRejects ==
  /\ rq.phase = "fetching"
  /\ rq' = [rq EXCEPT !.phase = "done", !.status = 0, !.result = "error"]
  /\ UNCHANGED <<parseVars, aggVars, streakVars, windowVars, listVars, nowMs, limits, wizardVars>>

\* the timer of sleep(backoffMs) fires: request(url, init, attempt + 1)
SleepDone ==
  /\ rq.phase = "sleeping"
  /\ rq' = [rq EXCEPT !.phase = "fetching", !.attempt = @ + 1, !.sent = @ + 1]
  /\ UNCHANGED <<parseVars, aggVars, streakVars, windowVars, listVars, nowMs, limits, wizardVars>>

(***************************************************************************)
(* WizardPage.tsx: parsing the file                                        *)
(***************************************************************************)
\* raw.trim() of a physical line
TrimLine(raw) ==
  IF raw.fmt = "none" THEN [raw EXCEPT !.rest = trim(@)]
  ELSE LET keep == {i \in 1..Len(raw.rest) : raw.rest[i] \notin WS}
       IN [raw EXCEPT !.rest = IF keep = {} THEN <<>> ELSE SubSeq(@, 1, MaxOf(keep))]

\* the test that takes no line for blank
NeverBlank(raw) == FALSE

IsBlankLine(raw) == raw.fmt = "none" /\ trim(raw.rest) = <<>>

\* the loop that builds mergedLines
RECURSIVE MergeFrom(_, _, _)
MergeFrom(lines, index, mergedLines) ==
  IF index > Len(lines) THEN mergedLines
  ELSE IF IsBlankLine(lines[index]) THEN MergeFrom(lines, index + 1, mergedLines)
  ELSE IF isTimestampLineStart(lines[index]) \/ mergedLines = <<>>
  THEN MergeFrom(lines, index + 1,
                 Append(mergedLines, [lineNumber |-> index, text |-> TrimLine(lines[index])]))
  ELSE MergeFrom(lines, index + 1,
                 [mergedLines EXCEPT ![Len(mergedLines)].text.rest =
                    @ \o <<" ">> \o TrimLine(lines[index]).rest])

MergedLines(lines) == MergeFrom(lines, 1, <<>>)

\* an output loop that pushes the lines with a timestamp only
KeptWhenResolved(parsed, bounds) ==
  /\ parsed.timestampUtcMillis # NoMillis
  /\ ~(\/ parsed.timestampUtcMillis < bounds.startUtcMillis
       \/ parsed.timestampUtcMillis > bounds.endUtcMillis)

\* the two tests of the output loop: TRUE when the parsed line is pushed
KeptByWindow(parsed, bounds) ==
  IF parsed.timestampUtcMillis = NoMillis THEN Len(parsed.issues) > 0
  ELSE ~(\/ parsed.timestampUtcMillis < bounds.startUtcMillis
         \/ parsed.timestampUtcMillis > bounds.endUtcMillis)

\* parseCurrentFile, with the component state it reads (week start, timezone) passed in
\* parseLine over the merged lines
ParsedOf(mergedLines, zone, lookup) ==
  [k \in 1..Len(mergedLines) |->
     parseLine(mergedLines[k].text, mergedLines[k].lineNumber, zone, lookup)]

\* the output loop
KeptLines(parsedAll, bounds) == SelectSeq(parsedAll, LAMBDA parsed : KeptByWindow(parsed, bounds))

parseCurrentFile(lines, usersInput, bossesInput, nameAliasesInput, bossAliasesInput, weekStart, zone) ==
  IF weekStart = NoDate THEN <<>>
  ELSE KeptLines(
         ParsedOf(MergedLines(lines), zone,
                  createParserLookup(usersInput, bossesInput, nameAliasesInput, bossAliasesInput)),
         weekBoundsFromUtcSunday(weekStart))

unresolvedIndexes(items, discarded) ==
  SelectSeq([i \in 1..Len(items) |-> i],
            LAMBDA i : items[i].lineNumber \notin discarded /\ Len(items[i].issues) > 0)

(***************************************************************************)
(* WizardPage.tsx: the three-week totals                                   *)
(***************************************************************************)
\* weeksAscending.slice(Math.max(0, targetIndex - 2), targetIndex + 1), as a set
IncludedWeeks(weeksAscending, targetWeekId) ==
  LET targetIndex == IndexOf(weeksAscending, targetWeekId)
  IN IF targetIndex = 0 - 1 THEN {}
     ELSE {weeksAscending[i + 1] : i \in MaxOf({0, targetIndex - 2}) .. targetIndex}

\* the map returned, as a function on the names it has an entry for
computeLast3WeekTotals(allRows, weeksAscending, targetWeekId) ==
  LET includedWeeks == IncludedWeeks(weeksAscending, targetWeekId)
      counted == SelectSeq(allRows, LAMBDA row : row.weekId \in includedWeeks)
  IN [name \in {counted[i].name : i \in 1..Len(counted)} |->
        SumSeq([i \in 1..Len(counted) |->
                  IF counted[i].name = name THEN counted[i].totalPoints ELSE 0])]

\* last3Totals.get(row.name) || row.totalPoints
Last3OrOwn(last3Totals, row) ==
  OrElse(row.name \in DOMAIN last3Totals,
         IF row.name \in DOMAIN last3Totals THEN last3Totals[row.name] ELSE 0,
         row.totalPoints)

(***************************************************************************)
(* sheets.ts: what a read of the setup ranges returns                      *)
(***************************************************************************)
DEFAULT_CONFIG == [activity_low_max |-> <<"4">>, activity_medium_max |-> <<"9">>]

\* a config object without entries; a missing entry reads as undefined
NoConfig == [activity_low_max |-> Undefined, activity_medium_max |-> Undefined]

parseConfigRows(rows) ==
  [key \in DOMAIN DEFAULT_CONFIG |->
     LET mine == {i \in 1..Len(rows) : rows[i].key = key}
     IN IF mine = {} THEN DEFAULT_CONFIG[key] ELSE trim(rows[MaxOf(mine)].value)]

parseUsersRows(cells) ==
  SelectSeq([i \in 1..Len(cells) |-> trim(cells[i])], LAMBDA value : value # <<>>)

\* config.activity_low_max ?? "4", then Number
ConfigNumber(cfg, key, fallback) ==
  Number(IF cfg[key] = Undefined THEN fallback ELSE cfg[key])

loadSetupBundle(setup, weeksTab) ==
  [users |-> parseUsersRows(setup.users),
   bosses |-> setup.bosses,
   bossAliases |-> setup.bossAliases,
   nameAliases |-> setup.nameAliases,
   config |-> parseConfigRows(setup.config),
   weeks |-> weeksTab]

(***************************************************************************)
(* WizardPage.tsx: saveWeeklyData                                          *)
(***************************************************************************)
RemoveAt(seq, i) == SubSeq(seq, 1, i - 1) \o SubSeq(seq, i + 1, Len(seq))

\* updatedWeeks.sort((a, b) => a.weekId.localeCompare(b.weekId))
RECURSIVE SortWeeks(_)
SortWeeks(weeks) ==
  IF weeks = <<>> THEN <<>>
  ELSE LET first == MinOf({i \in 1..Len(weeks) :
                             \A j \in 1..Len(weeks) : weeks[i].weekId <= weeks[j].weekId})
       IN <<weeks[first]>> \o SortWeeks(RemoveAt(weeks, first))

WeekIds(weeks) == [i \in 1..Len(weeks) |-> weeks[i].weekId]

\* storedWeeks: the week ids, latest first
WeekIdsDescending(weeks) == Reverse(SortedSeq(Range(WeekIds(weeks))))

UpdatedWeeks(weeks, weekId, weekStart, zone) ==
  LET bounds == weekBoundsFromUtcSunday(weekStart)
  IN SortWeeks(Append(SelectSeq(weeks, LAMBDA week : week.weekId # weekId),
                      [weekId |-> weekId, startUtc |-> bounds.startUtcMillis,
                       endUtc |-> bounds.endUtcMillis, timezone |-> zone]))

\* historical, before the streaks are recomputed
Historical(totalsRaw, weekId, rows) ==
  LET usable == SelectSeq(totalsRaw, LAMBDA row :
                  ~Falsy(row.name) /\ ~Falsy(row.totalPoints) /\ row.activityLevel # "")
      stored == [i \in 1..Len(usable) |->
                   [weekId |-> usable[i].weekId,
                    name |-> usable[i].name,
                    totalPoints |-> Number(usable[i].totalPoints),
                    activityLevel |-> usable[i].activityLevel,
                    streak |-> IF Falsy(usable[i].streak) THEN 1 ELSE Number(usable[i].streak)]]
  IN SelectSeq(stored, LAMBDA row : row.weekId # weekId)
       \o [i \in 1..Len(rows) |->
             [weekId |-> weekId, name |-> rows[i].name, totalPoints |-> rows[i].totalPoints,
              activityLevel |-> rows[i].activityLevel, streak |-> 1]]

\* a.weekId.localeCompare(b.weekId) || a.name.localeCompare(b.name)
TotalsBefore(a, b) ==
  a.weekId < b.weekId \/ (a.weekId = b.weekId /\ LocaleLess(a.name, b.name))

RECURSIVE SortTotals(_)
\* the index of the row the (stable) sort puts first
FirstTotal(rows) ==
  MinOf({i \in 1..Len(rows) : \A j \in 1..Len(rows) : ~TotalsBefore(rows[j], rows[i])})

SortTotals(rows) ==
  IF rows = <<>> THEN <<>>
  ELSE <<rows[FirstTotal(rows)]>> \o SortTotals(RemoveAt(rows, FirstTotal(rows)))

TotalsRows(historical) ==
  [i \in 1..Len(historical) |->
     [historical[i] EXCEPT !.totalPoints = String(@), !.streak = String(@)]]

RECURSIVE SortNames(_)
\* the name the sort puts first
FirstName(names) == CHOOSE n \in names : \A o \in names \ {n} : LocaleLess(n, o)

SortNames(names) ==
  IF names = {} THEN <<>>
  ELSE <<FirstName(names)>> \o SortNames(names \ {FirstName(names)})

\* the rows pushed for one summary row, one per boss of the row (in name order:
\* no reader of the tab depends on the order of one user's rows)
BreakdownInOrder(weekId, row, order) ==
  [k \in 1..Len(order) |->
     [weekId |-> weekId, name |-> row.name, boss |-> order[k],
      points |-> String(OrElse(order[k] \in DOMAIN row.bossPoints, row.bossPoints[order[k]], 0)),
      count |-> String(OrElse(order[k] \in DOMAIN row.bossCounts, row.bossCounts[order[k]], 0))]]

BreakdownOf(weekId, row) ==
  BreakdownInOrder(weekId, row, SortNames(DOMAIN row.bossCounts \cup DOMAIN row.bossPoints))

UpdatedBreakdown(breakdownRaw, weekId, rows) ==
  SelectSeq(breakdownRaw, LAMBDA row : row.weekId # weekId)
    \o Flatten([i \in 1..Len(rows) |-> BreakdownOf(weekId, rows[i])])

\* the rows saveWeeklyData returns: streakMap and last3Totals applied to rows
\* last3WeeksTotal: last3Totals.get(row.name) || row.totalPoints, on every row
WithLast3(rows, last3Totals) ==
  [k \in 1..Len(rows) |-> [rows[k] EXCEPT !.last3WeeksTotal = Last3OrOwn(last3Totals, rows[k])]]

\* streak: streakMap.get(row.name) || 1
StreakOf(historical, weekId, name) ==
  LET mine == {i \in 1..Len(historical) :
                 historical[i].weekId = weekId /\ historical[i].name = name}
  IN OrElse(mine # {}, IF mine = {} THEN 0 ELSE historical[MaxOf(mine)].streak, 1)

SavedRows(rows, historical, weeksAscending, weekId) ==
  WithLast3([i \in 1..Len(rows) |->
               [rows[i] EXCEPT !.streak = StreakOf(historical, weekId, rows[i].name)]],
            computeLast3WeekTotals(historical, weeksAscending, weekId))

(***************************************************************************)
(* WizardPage.tsx: loadStoredWeekView                                      *)
(***************************************************************************)
\* the row rebuilt for one name from the totals and breakdown rows of the week
StoredRow(totals, breakdown, name) ==
  LET mine == {i \in 1..Len(totals) : totals[i].name = name}
      last == totals[MaxOf(mine)]
      bossSet == {breakdown[i].boss : i \in {j \in 1..Len(breakdown) : breakdown[j].name = name}}
      cellOf(boss) ==
        breakdown[MaxOf({j \in 1..Len(breakdown) :
                           breakdown[j].name = name /\ breakdown[j].boss = boss})]
  IN [name |-> name,
      totalPoints |-> IF mine = {} \/ Falsy(last.totalPoints) THEN 0 ELSE Number(last.totalPoints),
      activityLevel |-> IF mine = {} \/ last.activityLevel = "" THEN "Low" ELSE last.activityLevel,
      streak |-> IF mine = {} \/ Falsy(last.streak) THEN 1 ELSE Number(last.streak),
      last3WeeksTotal |-> 0,
      bossPoints |-> [b \in bossSet |-> Number(cellOf(b).points)],
      bossCounts |-> [b \in bossSet |-> Number(cellOf(b).count)]]

\* rows, sorted, from the totals and breakdown rows of the week
StoredRowsOf(totals, breakdown) ==
  SortRows({StoredRow(totals, breakdown, name) :
              name \in {totals[i].name : i \in 1..Len(totals)}
                         \cup {breakdown[i].name : i \in 1..Len(breakdown)}})

\* last3Totals of the view: computeLast3WeekTotals over every stored total
StoredLast3(weekId, totalsRaw) ==
  LET usable == SelectSeq(totalsRaw, LAMBDA row : ~Falsy(row.name) /\ ~Falsy(row.totalPoints))
  IN computeLast3WeekTotals(
       [i \in 1..Len(usable) |->
          [weekId |-> usable[i].weekId, name |-> usable[i].name,
           totalPoints |-> Number(usable[i].totalPoints)]],
       SortedSeq({totalsRaw[i].weekId : i \in 1..Len(totalsRaw)}), weekId)

StoredWeekRows(weekId, totalsRaw, breakdownRaw) ==
  WithLast3(StoredRowsOf(SelectSeq(totalsRaw, LAMBDA row : row.weekId = weekId),
                         SelectSeq(breakdownRaw, LAMBDA row : row.weekId = weekId)),
            StoredLast3(weekId, totalsRaw))

(***************************************************************************)
(* Vocabulary of the bounded inputs                                        *)
(***************************************************************************)
tAl == <<"A","l">>
tAlDot == <<"a","l",".">>
tBo == <<"B","o">>
tZed == <<"Z","e","d">>
tAy == <<"a","y">>
tNot == <<"n","o","t">>
tNotCap == <<"N","o","t">>
tDot == <<".">>
tHy == <<"H","y">>
tPn == <<"P","n">>
tZz == <<"Z","z">>
tHd == <<"h","d">>
tBoColon == <<"B","o",":">>
zz == <<"z","z">>
DoubleCap == <<"D","o","u","b","l","e">>
t5 == <<"5">>

Alias(alias, canonical) == [alias |-> alias, canonical |-> canonical]
Boss(boss, points) == [boss |-> boss, points |-> points]

\* the usual tables: two users, a boss, a penalty boss, one alias of each kind
TablesA ==
  [users |-> <<tAl, tBo>>,
   bosses |-> <<Boss(tHy, 10), Boss(tPn, 0 - 3)>>,
   nameAliases |-> <<Alias(tAy, tAl)>>,
   bossAliases |-> <<Alias(tHd, tHy)>>]
\* an alias chain (Bo -> ay -> Al) and a boss worth 3
TablesB ==
  [users |-> <<tAl>>,
   bosses |-> <<Boss(tHy, 3)>>,
   nameAliases |-> <<Alias(tBo, tAy), Alias(tAy, tAl)>>,
   bossAliases |-> <<>>]
\* an empty roster
TablesC ==
  [users |-> <<>>,
   bosses |-> <<Boss(tHy, 10)>>,
   nameAliases |-> <<>>,
   bossAliases |-> <<>>]
\* a boss alias on the key of a boss (Hy -> Pn) and alias chains of both kinds
\* (hd -> Zz -> Hy, Zed -> ay -> Al)
TablesD ==
  [users |-> <<tAl, tBo>>,
   bosses |-> <<Boss(tHy, 10), Boss(tPn, 0 - 3)>>,
   nameAliases |-> <<Alias(tAy, tAl), Alias(tZed, tAy)>>,
   bossAliases |-> <<Alias(tHy, tPn), Alias(tHd, tZz), Alias(tZz, tHy)>>]
TablesPool == {TablesA, TablesB, TablesC}

LookupOf(tables) ==
  createParserLookup(tables.users, tables.bosses, tables.nameAliases, tables.bossAliases)

GoodStamp == [ok |-> TRUE, min |-> 60]
BadStamp == [ok |-> FALSE, min |-> 0]

NameTokenPool == {tAl, tAlDot, tBo, tZed, tAy, tNot, tNotCap, tDot}
\* a parenthetical group is a sequence of modifier words
ModGroupPool == {<<brucy>>, <<double>>, <<fail>>, <<comp>>, <<zz>>, <<brucy, zz>>,
                 <<DoubleCap>>, <<doublepoints, brucybonus>>, <<constructor>>}

MaxNames == 3
MaxMods == 2

\* "(w1,w2,...)"
GroupText(words) == <<"(">> \o JoinWith(words, <<",">>) \o <<")">>
BossTokenText(base, mods) == base \o Flatten([k \in 1..Len(mods) |-> GroupText(mods[k])])

\* the raw line made of the parts: "<stamp>[:] <pre...> <boss><groups> <names...>"
LineOf(parts) ==
  [fmt |-> parts.fmt,
   stamp |-> parts.stamp,
   rest |-> <<" ">> \o JoinWith(parts.pre \o <<BossTokenText(parts.base, parts.mods)>> \o parts.names,
                                parts.sep)]

Parts(fmt, stamp, base, mods, names) ==
  [fmt |-> fmt, stamp |-> stamp,
   pre |-> IF fmt = "old" THEN <<tBoColon>> ELSE <<tBo>>,
   base |-> base, mods |-> mods, names |-> names, sep |-> <<" ">>]

(***************************************************************************)
(* The parser harness: parseLine applied to a bounded set of lines         *)
(***************************************************************************)
\* lines rich in name tokens
InitNameLines ==
  /\ \E fmt \in {"old", "new"}, names \in BoundedSeqs(NameTokenPool, MaxNames) :
       pParts = Parts(fmt, GoodStamp, tHy, <<>>, names)
  /\ pTables \in TablesPool
  /\ pTz = "UTC"
  /\ pOut = <<>>
  /\ pLookup = LookupOf(pTables)

\* lines rich in boss-token modifiers
InitBossLines ==
  /\ \E fmt \in {"old", "new"}, base \in {tHy, tHd, tZz},
        mods \in BoundedSeqs(ModGroupPool, MaxMods),
        names \in {<<>>, <<tAl, tNot, tBo>>, <<tZed>>} :
       pParts = Parts(fmt, GoodStamp, base, mods, names)
  /\ pTables \in {TablesA, TablesB}
  /\ pTz = "UTC"
  /\ pOut = <<>>
  /\ pLookup = LookupOf(pTables)

\* lines of both dialects, well formed or not: with and without the ":" after
\* the author, a timestamp that parses or not, several boss candidates
PrePool == {<<>>, <<tBo>>, <<tBoColon>>, <<tBo, tZed>>, <<tBo, tBoColon>>, <<tHy>>, <<t5>>}
BasePool == {tHy, tHd, tZz, t5}
ModsPool == {<<>>, <<<<brucy, zz>>>>}
SepPool == {<<" ">>, <<" ", " ">>}
NamesPool ==
  {<<>>, <<tAl>>, <<tAl, tNot, tBo>>, <<tZed>>, <<tNot, tAl, tNot>>, <<t5, tAl>>, <<tHy, tAl>>,
   <<tAy, tZed>>}
MaxCalls == 2

InitAnyLines ==
  /\ \E fmt \in {"old", "new"}, stamp \in {GoodStamp, BadStamp}, pre \in PrePool,
        base \in BasePool, mods \in ModsPool, names \in NamesPool, sep \in SepPool :
       pParts = [fmt |-> fmt, stamp |-> stamp, pre |-> pre, base |-> base,
                 mods |-> mods, names |-> names, sep |-> sep]
  /\ pTables \in {TablesA, TablesD}
  /\ pTz = "UTC"
  /\ pOut = <<>>
  /\ pLookup = LookupOf(pTables)

\* physical lines of a timers file
StampAt(day, minute) == [ok |-> TRUE, min |-> day * 24 * 60 + minute]
RawLine(fmt, stamp, words) == [fmt |-> fmt, stamp |-> stamp, rest |-> <<" ">> \o Join(words)]
Continuation(words) == [fmt |-> "none", stamp |-> BadStamp, rest |-> Join(words)]

\* the harnesses that are not in use
ListIdle ==
  /\ dValues = <<>>
  /\ dToken = <<>>
  /\ dOut = <<>>

ParseIdle ==
  /\ pParts = Parts("none", BadStamp, tZz, <<>>, <<>>)
  /\ pTables = TablesC
  /\ pTz = "UTC"
  /\ pOut = <<>>
  /\ pLookup = LookupOf(pTables)

AggIdle ==
  /\ aLines = <<>>
  /\ aBosses = <<>>
  /\ aUsers = <<>>
  /\ aThresholds = [lowMax |-> 0, mediumMax |-> 0]
  /\ aRows = <<>>

StreakIdle ==
  /\ hRows = <<>>
  /\ hWeeks = <<>>
  /\ hOut = <<>>

\* parsed lines as the aggregation gets them
MaxLines == 1
SummaryLine(boss, bonus, multiplier, adds, subtracts, issues) ==
  [NewParsed(<<>>, 1) EXCEPT !.bossCanonical = boss, !.pointsBonus = bonus,
                             !.pointsMultiplier = multiplier, !.addNames = adds,
                             !.subtractNames = subtracts, !.issues = issues]
SummaryLinePool ==
  {SummaryLine(boss, bonus, multiplier, names[1], names[2], issues) :
     boss \in {tHy, tPn, Undefined}, bonus \in {0, 5}, multiplier \in {1, 2, 4},
     names \in {<<<<tAl>>, <<>>>>, <<<<tAl, tBo>>, <<>>>>, <<<<tAl>>, <<tBo>>>>, <<<<>>, <<tAl>>>>},
     issues \in {<<>>, <<Issue("UnknownName", tZed, <<>>)>>}}
BossTablePool ==
  {TablesA.bosses, TablesB.bosses, <<Boss(tHy, 3), Boss(tPn, 0 - 1)>>}
DefaultThresholds == [lowMax |-> 4, mediumMax |-> 9]

InitSummary ==
  /\ aLines \in BoundedSeqs(SummaryLinePool, MaxLines)
  /\ aBosses \in BossTablePool
  /\ aUsers \in {<<tAl, tBo>>, <<tBo, tAl>>}
  /\ aThresholds = DefaultThresholds
  /\ aRows = <<>>

\* files of up to three parsed lines as parseLine returns them for the roster Al, Bo:
\* a line without issue has a boss and only roster names; Zed is a user in no line
MaxFoldLines == 3
FoldLinePool ==
  {SummaryLine(boss, 0, multiplier, names[1], names[2], <<>>) :
     boss \in {tHy, tPn}, multiplier \in {1, 2},
     names \in {<<<<tAl>>, <<>>>>, <<<<tAl>>, <<tBo>>>>}}
    \cup {SummaryLine(tHy, 0, 2, <<tAl, tBo>>, <<>>, <<>>),
          SummaryLine(tHy, 5, 2, <<tAl>>, <<>>, <<>>),
          SummaryLine(tHy, 0, 2, <<>>, <<tAl>>, <<>>),
          SummaryLine(tHy, 0, 2, <<tAl>>, <<>>, <<Issue("UnknownName", tZed, <<>>)>>),
          SummaryLine(Undefined, 0, 2, <<tAl>>, <<>>, <<Issue("UnknownBoss", tZz, <<>>)>>),
          SummaryLine(constructor, 0, 2, <<tAl>>, <<>>, <<>>),
          SummaryLine(constructor, 0, 2, <<tBo>>, <<tAl>>, <<>>)}

InitFold ==
  /\ aLines \in BoundedSeqs(FoldLinePool, MaxFoldLines)
  /\ aBosses \in {TablesA.bosses, <<Boss(tHy, 4), Boss(tPn, 9), Boss(constructor, 2)>>}
  /\ aUsers \in {<<tAl, tBo>>, <<tBo, tZed, tAl>>}
  /\ aThresholds \in {DefaultThresholds, [lowMax |-> 10, mediumMax |-> 10]}
  /\ aRows = <<>>

\* lists of names that differ in case and punctuation only, and repeat
MaxListLen == 4
tAlLower == <<"a","l">>
ListValuePool == {tAl, tAlLower, tAlDot, tBo, tAy}
InitDedupe ==
  /\ dValues \in BoundedSeqs(ListValuePool, MaxListLen)
  /\ dToken = <<>>
  /\ dOut = <<>>

\* tokens and candidate lists for the suggestions: candidates at distances 0 to 3
\* and more of the token, and more than five of them within 2 of a short token
tAlice == <<"A","l","i","c","e">>
tAlicee == <<"A","l","i","c","e","e">>
tAlicia == <<"A","l","i","c","i","a">>
tAlec == <<"A","l","e","c">>
tAliceComma == <<"a","l","i","c","e",",">>
CandidateList == <<tBo, tAlicia, tZz, tAlice, tHy, tAlec, tAy, tAl, tPn, tHd>>
InitSuggest ==
  /\ \E list \in {CandidateList, Reverse(CandidateList)}, n \in 0..Len(CandidateList) :
       dValues = SubSeq(list, 1, n)
  /\ dToken \in {tAlicee, tAl, tAliceComma, tZed, tAlec}
  /\ dOut = <<>>

\* lines with a token close to roster users or to a boss
TablesE ==
  [users |-> <<tBo, tAlicia, tAlice>>,
   bosses |-> <<Boss(tHy, 10), Boss(tAlec, 2)>>,
   nameAliases |-> <<>>,
   bossAliases |-> <<>>]
InitSuggestLines ==
  /\ \E fmt \in {"old", "new"}, base \in {tHy, tHd},
        names \in {<<tAlicee>>, <<tBo, tAlicee>>, <<tAlice>>, <<tAl, tAlicee>>} :
       pParts = Parts(fmt, GoodStamp, base, <<>>, names)
  /\ pTables = TablesE
  /\ pTz = "UTC"
  /\ pOut = <<>>
  /\ pLookup = LookupOf(pTables)

\* stored totals as the streak recomputation gets them: Al has a row in each of the
\* first Len(levels) weeks, Bo in the first weeks too
MaxWeeks == 5
WeekIdOf(k) == 7 * (k - 1)
LevelPool == {"Low", "Medium", "High"}
TotalsRow(weekId, name, level, streak) ==
  [weekId |-> weekId, name |-> name, totalPoints |-> 0, activityLevel |-> level, streak |-> streak]
HistoryOf(levelsAl, levelsBo, stored) ==
  [k \in 1..Len(levelsAl) |-> TotalsRow(WeekIdOf(k), tAl, levelsAl[k], stored)]
    \o [k \in 1..Len(levelsBo) |-> TotalsRow(WeekIdOf(k), tBo, levelsBo[k], stored)]

InitStreaks ==
  /\ \E levelsAl \in BoundedSeqs(LevelPool, MaxWeeks) \ {<<>>},
        levelsBo \in {<<>>, <<"High">>, <<"Low", "Low">>},
        stored \in {1, 7}, backwards \in BOOLEAN :
       hRows = IF backwards THEN Reverse(HistoryOf(levelsAl, levelsBo, stored))
                            ELSE HistoryOf(levelsAl, levelsBo, stored)
  /\ hWeeks \in {[k \in 1..MaxWeeks |-> WeekIdOf(k)], Reverse([k \in 1..MaxWeeks |-> WeekIdOf(k)])}
  /\ hOut = <<>>

WindowIdle ==
  /\ fLines = <<>>
  /\ fTables = TablesC
  /\ fWeekStart = 0
  /\ fTz = "UTC"
  /\ fOut = <<>>
  /\ fMerged = <<>>

\* files whose lines sit on the edges of the weeks starting on day 0 and day 7,
\* in UTC and in New York time (five hours behind)
MaxFileLines == 2
EdgeMinutes == {0 - 1, 0, 7 * 24 * 60 - 1, 7 * 24 * 60, 7 * 24 * 60 - 301, 7 * 24 * 60 - 300}
WindowLinePool ==
  {RawLine("old", [ok |-> TRUE, min |-> minute], <<tBoColon, tHy, tAl>>) : minute \in EdgeMinutes}
    \cup {RawLine("old", [ok |-> TRUE, min |-> minute], <<tBoColon, tHy, tZed>>) :
            minute \in {0 - 1, 0, 7 * 24 * 60}}
    \cup {RawLine("new", [ok |-> TRUE, min |-> 7 * 24 * 60 - 1], <<tBo, tHy, tAl>>),
          RawLine("old", BadStamp, <<tBoColon, tHy, tAl>>),
          Continuation(<<tBo>>)}

InitWindow ==
  /\ fLines \in BoundedSeqs(WindowLinePool, MaxFileLines)
  /\ fTables = TablesA
  /\ fWeekStart \in {0, 7}
  /\ fTz \in {"UTC", "America/New_York"}
  /\ fOut = <<>>
  /\ fMerged = <<>>

\* files with blank lines, wrapped payloads and a first line without timestamp
MaxMergeLines == 4
PlainLine(text) == [fmt |-> "none", stamp |-> BadStamp, rest |-> text]
MergeLinePool ==
  {RawLine("old", StampAt(1, 720), <<tBoColon, tHy, tAl>>),
   [fmt |-> "new", stamp |-> StampAt(2, 0), rest |-> <<" ">> \o tBo \o <<" ">> \o tHy \o <<" ", " ">>],
   PlainLine(tBo),
   PlainLine(<<" ", " ">> \o tAl \o <<" ">>),
   PlainLine(<<>>),
   PlainLine(<<" ", " ">>)}

InitMergeFile ==
  /\ fLines \in BoundedSeqs(MergeLinePool, MaxMergeLines)
  /\ fTables = TablesA
  /\ fWeekStart = 0
  /\ fTz = "UTC"
  /\ fOut = <<>>
  /\ fMerged = <<>>

\* the sheets of the wizard
SheetSetup ==
  [users |-> <<tAl, tBo>>,
   bosses |-> <<Boss(tHy, 3), Boss(tPn, 0 - 3)>>,
   bossAliases |-> <<Alias(tHd, tHy)>>,
   nameAliases |-> <<Alias(tAy, tAl)>>,
   config |-> <<>>]

StoredWeekOf(weekId) ==
  [weekId |-> weekId, startUtc |-> weekBoundsFromUtcSunday(weekId).startUtcMillis,
   endUtc |-> weekBoundsFromUtcSunday(weekId).endUtcMillis, timezone |-> "UTC"]
TotalsCells(weekId, name, totalPoints, level, streak) ==
  [weekId |-> weekId, name |-> name, totalPoints |-> String(totalPoints),
   activityLevel |-> level, streak |-> String(streak)]
BreakdownCells(weekId, name, boss, points, count) ==
  [weekId |-> weekId, name |-> name, boss |-> boss, points |-> String(points),
   count |-> String(count)]

NoHistory == [weeks |-> <<>>, totals |-> <<>>, breakdown |-> <<>>]
\* three weeks saved earlier: Al earned 5, then 0, then -3 in the week of day 0
ThreeWeeks ==
  [weeks |-> <<StoredWeekOf(0 - 14), StoredWeekOf(0 - 7), StoredWeekOf(0)>>,
   totals |-> <<TotalsCells(0 - 14, tAl, 5, "Medium", 1), TotalsCells(0 - 14, tBo, 0, "Low", 1),
                TotalsCells(0 - 7, tAl, 0, "Low", 1), TotalsCells(0 - 7, tBo, 0, "Low", 2),
                TotalsCells(0, tAl, 0 - 3, "Low", 2), TotalsCells(0, tBo, 0, "Low", 3)>>,
   breakdown |-> <<BreakdownCells(0 - 14, tAl, tHy, 8, 1), BreakdownCells(0 - 14, tAl, tPn, 0 - 3, 1),
                   BreakdownCells(0, tAl, tPn, 0 - 3, 1)>>]
HistoryPool == {NoHistory, ThreeWeeks}

\* the week of day 0 has a penalty and a kill whose line, continued on the next
\* one, names a stranger; the week of day 7 has a kill by an alias
TimersFile ==
  <<RawLine("old", StampAt(1, 720), <<tBoColon, tPn, tAl>>),
    RawLine("old", StampAt(2, 0), <<tBoColon, BossTokenText(tHd, <<<<brucy>>>>), tAl, tZed>>),
    Continuation(<<tBo>>),
    RawLine("new", StampAt(8, 720), <<tBo, tHy, tAy>>)>>
FilePool == {TimersFile}
WeekStartPool == {0, 7}

MaxParseVersion == 4
MaxInFlight == 1
CacheTtlMs == 180000
\* the limits of the sessions that start at the mounted page
PageLimits ==
  [loads |-> MaxInFlight, saves |-> MaxInFlight, parses |-> MaxParseVersion, resolving |-> 0,
   clock |-> {0, CacheTtlMs}]

WizardIdle ==
  /\ weekStartUtcDate = 0
  /\ timezone = "UTC"
  /\ rawLines = <<>>
  /\ parsedLines = <<>>
  /\ parseVersion = 0
  /\ hasParsed = FALSE
  /\ discardedLines = {}
  /\ canonicalUsers = <<>>
  /\ bosses = <<>>
  /\ bossAliases = <<>>
  /\ nameAliases = <<>>
  /\ config = NoConfig
  /\ error = ""
  /\ busy = FALSE
  /\ resultRows = <<>>
  /\ storedWeeks = <<>>
  /\ selectedStoredWeek = NoDate
  /\ autoLoadAttempted = FALSE
  /\ setupCacheRef = <<>>
  /\ lastAutoCalcRef = <<>>
  /\ nowMs = 0
  /\ rq = NoRequest
  /\ limits = PageLimits
  /\ sheetSetup = SheetSetup
  /\ sheetWeeks = <<>>
  /\ sheetTotals = <<>>
  /\ sheetBreakdown = <<>>
  /\ setupTasks = <<>>
  /\ saveTasks = <<>>
  /\ viewTasks = <<>>
  /\ resolveTasks = <<>>

\* the page as it mounts, over sheets that hold one of the histories
InitWizard ==
  /\ weekStartUtcDate = 0
  /\ timezone = "UTC"
  /\ rawLines = <<>>
  /\ parsedLines = <<>>
  /\ parseVersion = 0
  /\ hasParsed = FALSE
  /\ discardedLines = {}
  /\ canonicalUsers = <<>>
  /\ bosses = <<>>
  /\ bossAliases = <<>>
  /\ nameAliases = <<>>
  /\ config = NoConfig
  /\ error = ""
  /\ busy = FALSE
  /\ resultRows = <<>>
  /\ storedWeeks = <<>>
  /\ selectedStoredWeek = NoDate
  /\ autoLoadAttempted = FALSE
  /\ setupCacheRef = <<>>
  /\ lastAutoCalcRef = <<>>
  /\ nowMs = 0
  /\ rq = NoRequest
  /\ limits = PageLimits
  /\ sheetSetup = SheetSetup
  /\ \E history \in HistoryPool :
       /\ sheetWeeks = history.weeks
       /\ sheetTotals = history.totals
       /\ sheetBreakdown = history.breakdown
  /\ setupTasks = <<>>
  /\ saveTasks = <<>>
  /\ viewTasks = <<>>
  /\ resolveTasks = <<>>

\* the resolver at work: the page after Run DKP Flow on a file with unknown
\* tokens, over sheets that hold two users and one boss
ResolverSetup ==
  [users |-> <<tAl, tBo>>,
   bosses |-> <<Boss(tHy, 10)>>,
   bossAliases |-> <<>>,
   nameAliases |-> <<>>,
   config |-> <<>>]

ResolverLinePool ==
  {RawLine("old", StampAt(1, 720), <<tBoColon, tHy, tZed>>),
   RawLine("old", StampAt(1, 720), <<tBoColon, tHy, tAy>>),
   RawLine("old", StampAt(1, 720), <<tBoColon, tHy, tAl, tDot>>),
   RawLine("old", StampAt(1, 720), <<tBoColon, tPn, tAl>>),
   RawLine("old", StampAt(1, 720), <<tBoColon, tAl, tBo>>),
   RawLine("new", StampAt(1, 720), <<tBo, tHy, tAl>>),
   RawLine("new", StampAt(1, 720), <<tPn, tHy, tAl>>),
   RawLine("new", StampAt(1, 720), <<tZed, tHy, tBo>>)}

MaxResolverLines == 2
MaxResolving == 2
MaxResolveVersion == 5
\* the limits of the sessions that start at the resolver
ResolveLimits ==
  [loads |-> MaxInFlight, saves |-> MaxInFlight, parses |-> MaxResolveVersion,
   resolving |-> MaxResolving, clock |-> {0}]
NewBossPool == {tPn}
NewBossPoints == {5}

InitResolver ==
  /\ weekStartUtcDate = 0
  /\ timezone = "UTC"
  /\ rawLines \in BoundedSeqs(ResolverLinePool, MaxResolverLines) \ {<<>>}
  /\ parsedLines = parseCurrentFile(rawLines, ResolverSetup.users, ResolverSetup.bosses,
                                    ResolverSetup.nameAliases, ResolverSetup.bossAliases,
                                    0, "UTC")
  /\ parseVersion = 3
  /\ hasParsed = TRUE
  /\ discardedLines = {}
  /\ canonicalUsers = ResolverSetup.users
  /\ bosses = ResolverSetup.bosses
  /\ bossAliases = ResolverSetup.bossAliases
  /\ nameAliases = ResolverSetup.nameAliases
  /\ config = parseConfigRows(ResolverSetup.config)
  /\ error = ""
  /\ busy = FALSE
  /\ resultRows = <<>>
  /\ storedWeeks = <<>>
  /\ selectedStoredWeek = NoDate
  /\ autoLoadAttempted = TRUE
  /\ setupCacheRef = <<[loadedAt |-> 0, data |-> loadSetupBundle(ResolverSetup, <<>>)]>>
  /\ lastAutoCalcRef = <<>>
  /\ nowMs = 0
  /\ rq = NoRequest
  /\ limits = ResolveLimits
  /\ sheetSetup = ResolverSetup
  /\ sheetWeeks = <<>>
  /\ sheetTotals = <<>>
  /\ sheetBreakdown = <<>>
  /\ setupTasks = <<>>
  /\ saveTasks = <<>>
  /\ viewTasks = <<>>
  /\ resolveTasks = <<>>

\* a session under way: the page after Run DKP Flow on a file with unknown
\* tokens, over sheets that hold two users and one boss; the setup cache was
\* stored at time 0
MaxSaves == 2
MaxSessionVersion == 8
SessionLimits ==
  [loads |-> MaxInFlight, saves |-> MaxSaves, parses |-> MaxSessionVersion,
   resolving |-> MaxResolving, clock |-> {0, CacheTtlMs - 1, CacheTtlMs}]
SessionFilePool ==
  {<<RawLine("old", StampAt(1, 720), <<tBoColon, tHy, tZed>>)>>,
   <<RawLine("old", StampAt(1, 720), <<tBoColon, tPn, tAl>>)>>}

\* a file to edit in the resolver: unknown names on lines with and without
\* continuation lines
MaxEditVersion == 6
EditLimits ==
  [loads |-> MaxInFlight, saves |-> MaxInFlight, parses |-> MaxEditVersion,
   resolving |-> 0, clock |-> {0}]
EditFilePool ==
  {<<RawLine("old", StampAt(1, 720), <<tBoColon, tHy, tZed>>)>>,
   <<RawLine("old", StampAt(1, 720), <<tBoColon, tHy, tZed>>), Continuation(<<tAl>>)>>,
   <<RawLine("old", StampAt(1, 720), <<tBoColon, tHy, tAl>>),
     RawLine("new", StampAt(2, 0), <<tZed, tHy, tBo>>),
     Continuation(<<tBo>>),
     RawLine("old", StampAt(3, 0), <<tBoColon, tHy, tAy>>)>>,
   <<RawLine("old", StampAt(1, 720), <<tBoColon, tPn, tAl>>),
     Continuation(<<tZed>>),
     RawLine("new", StampAt(2, 0), <<tBo, tHy, tZed>>)>>}
\* a session with stored weeks: files without unknown tokens, the week changed
\* and stored weeks looked at while saves are under way
OverlapLimits ==
  [loads |-> MaxInFlight, saves |-> MaxSaves, parses |-> MaxSessionVersion,
   resolving |-> 0, clock |-> {0}]
OverlapFilePool ==
  {<<RawLine("old", StampAt(1, 720), <<tBoColon, tHy, tAl>>)>>,
   <<RawLine("old", StampAt(1, 720), <<tBoColon, tHy, tAl, tBo>>),
     RawLine("old", StampAt(8, 0), <<tBoColon, tHy, tBo>>)>>}
\* files with lines to discard: unknown names next to lines that count
MaxDiscardVersion == 7
DiscardLimits ==
  [loads |-> MaxInFlight, saves |-> MaxInFlight, parses |-> MaxDiscardVersion,
   resolving |-> MaxInFlight, clock |-> {0}]
DiscardFilePool ==
  {<<RawLine("old", StampAt(1, 720), <<tBoColon, tHy, tZed>>),
     RawLine("old", StampAt(2, 0), <<tBoColon, tHy, tAl>>),
     RawLine("old", StampAt(3, 0), <<tBoColon, tHy, tZed, tBo>>)>>,
   <<RawLine("old", StampAt(1, 720), <<tBoColon, tHy, tAl>>),
     RawLine("new", StampAt(2, 0), <<tZed, tHy, tBo>>),
     Continuation(<<tBo>>),
     RawLine("old", StampAt(3, 0), <<tBoColon, tHy, tAy>>)>>}
\* what the operator may type into the draft
EditPool ==
  {RawLine("old", StampAt(1, 720), <<tBoColon, tHy, tAl>>),
   RawLine("old", StampAt(1, 720), <<tBoColon, tHy, tAl, <<" ">>>>),
   RawLine("new", StampAt(2, 0), <<tBo, tHy, tAl>>),
   RawLine("old", StampAt(8, 720), <<tBoColon, tHy, tAl>>),
   Continuation(<<tAl>>)}

PageAfterFlow(lines, sessionLimits) ==
  /\ weekStartUtcDate = 0
  /\ timezone = "UTC"
  /\ rawLines = lines
  /\ parsedLines = parseCurrentFile(rawLines, ResolverSetup.users, ResolverSetup.bosses,
                                    ResolverSetup.nameAliases, ResolverSetup.bossAliases,
                                    0, "UTC")
  /\ parseVersion = 3
  /\ hasParsed = TRUE
  /\ discardedLines = {}
  /\ canonicalUsers = ResolverSetup.users
  /\ bosses = ResolverSetup.bosses
  /\ bossAliases = ResolverSetup.bossAliases
  /\ nameAliases = ResolverSetup.nameAliases
  /\ config = parseConfigRows(ResolverSetup.config)
  /\ error = ""
  /\ busy = FALSE
  /\ resultRows = <<>>
  /\ storedWeeks = <<>>
  /\ selectedStoredWeek = NoDate
  /\ autoLoadAttempted = TRUE
  /\ setupCacheRef = <<[loadedAt |-> 0, data |-> loadSetupBundle(ResolverSetup, <<>>)]>>
  /\ lastAutoCalcRef = <<>>
  /\ nowMs = 0
  /\ rq = NoRequest
  /\ limits = sessionLimits
  /\ sheetSetup = ResolverSetup
  /\ sheetWeeks = <<>>
  /\ sheetTotals = <<>>
  /\ sheetBreakdown = <<>>
  /\ setupTasks = <<>>
  /\ saveTasks = <<>>
  /\ viewTasks = <<>>
  /\ resolveTasks = <<>>

InitSessionPage == \E lines \in SessionFilePool : PageAfterFlow(lines, SessionLimits)
InitEditPage == \E lines \in EditFilePool : PageAfterFlow(lines, EditLimits)
InitOverlapPage == \E lines \in OverlapFilePool : PageAfterFlow(lines, OverlapLimits)
InitDiscardPage == \E lines \in DiscardFilePool : PageAfterFlow(lines, DiscardLimits)
InitRequest == ParseIdle /\ AggIdle /\ StreakIdle /\ WindowIdle /\ ListIdle /\ WizardIdle
InitDiscard == ParseIdle /\ AggIdle /\ StreakIdle /\ WindowIdle /\ ListIdle /\ InitDiscardPage
InitOverlap == ParseIdle /\ AggIdle /\ StreakIdle /\ WindowIdle /\ ListIdle /\ InitOverlapPage
InitEdit == ParseIdle /\ AggIdle /\ StreakIdle /\ WindowIdle /\ ListIdle /\ InitEditPage
InitSession == ParseIdle /\ AggIdle /\ StreakIdle /\ WindowIdle /\ ListIdle /\ InitSessionPage
InitResolve == ParseIdle /\ AggIdle /\ StreakIdle /\ WindowIdle /\ ListIdle /\ InitResolver
InitLine ==
  /\ \/ InitAnyLines /\ WindowIdle
     \/ ParseIdle /\ InitWindow
  /\ AggIdle /\ StreakIdle /\ ListIdle /\ WizardIdle
InitLists ==
  /\ \/ ParseIdle /\ InitDedupe
     \/ ParseIdle /\ InitSuggest
     \/ InitNameLines /\ ListIdle
     \/ InitSuggestLines /\ ListIdle
  /\ AggIdle /\ StreakIdle /\ WindowIdle /\ WizardIdle
InitTally == ParseIdle /\ InitFold /\ StreakIdle /\ WindowIdle /\ ListIdle /\ WizardIdle
InitMerge == ParseIdle /\ AggIdle /\ StreakIdle /\ InitMergeFile /\ ListIdle /\ WizardIdle
InitNames == InitNameLines /\ AggIdle /\ StreakIdle /\ WindowIdle /\ ListIdle /\ WizardIdle
InitBoss == InitBossLines /\ AggIdle /\ StreakIdle /\ WindowIdle /\ ListIdle /\ WizardIdle
InitAgg == ParseIdle /\ InitSummary /\ StreakIdle /\ WindowIdle /\ ListIdle /\ WizardIdle
InitHistory == ParseIdle /\ AggIdle /\ InitStreaks /\ WindowIdle /\ ListIdle /\ WizardIdle
InitFile == ParseIdle /\ AggIdle /\ StreakIdle /\ InitWindow /\ ListIdle /\ WizardIdle
Init == ParseIdle /\ AggIdle /\ StreakIdle /\ WindowIdle /\ ListIdle /\ InitWizard

ParseStep ==
  /\ pOut = <<>>
  /\ pOut' = <<parseLine(LineOf(pParts), 1, pTz, LookupOf(pTables))>>
  /\ UNCHANGED <<pParts, pTables, pTz, pLookup, aggVars, streakVars, windowVars, listVars, envVars, wizardVars>>

\* what a call of parseLine leaves of the lookup: the maps are only read
LookupForgetsAliases(lookup) == [lookup EXCEPT !.nameAliasByKey = <<>>, !.bossAliasByKey = <<>>]

LookupAfterCall(lookup) == lookup

\* one more call of parseLine on the same text, with the lookup the calls share
ParseCall ==
  /\ Len(pOut) < MaxCalls
  /\ pOut' = Append(pOut, parseLine(LineOf(pParts), 1, pTz, pLookup))
  /\ pLookup' = LookupAfterCall(pLookup)
  /\ UNCHANGED <<pParts, pTables, pTz, aggVars, streakVars, windowVars, listVars, envVars, wizardVars>>

\* one more run of parseCurrentFile on the same lines and tables
WindowCall ==
  /\ fLines # <<>>
  /\ Len(fOut) < MaxCalls
  /\ fOut' = Append(fOut, parseCurrentFile(fLines, fTables.users, fTables.bosses,
                                           fTables.nameAliases, fTables.bossAliases,
                                           fWeekStart, fTz))
  /\ fMerged' = MergedLines(fLines)
  /\ UNCHANGED <<fLines, fTables, fWeekStart, fTz, parseVars, aggVars, streakVars, listVars, envVars, wizardVars>>

\* dedupePreserveOrder applied to the list, then to its own result
DedupeCall ==
  /\ dValues # <<>>
  /\ dToken = <<>>
  /\ Len(dOut) < 2
  /\ dOut' = Append(dOut, [fn |-> "dedupePreserveOrder",
                          list |-> dedupePreserveOrder(IF dOut = <<>> THEN dValues
                                                       ELSE dOut[Len(dOut)].list)])
  /\ UNCHANGED <<dValues, dToken, parseVars, aggVars, streakVars, windowVars, envVars, wizardVars>>

NameSuggestCall ==
  /\ dToken # <<>>
  /\ dOut = <<>>
  /\ dOut' = <<[fn |-> "getNameSuggestions", list |-> getNameSuggestions(dToken, dValues, 5)]>>
  /\ UNCHANGED <<dValues, dToken, parseVars, aggVars, streakVars, windowVars, envVars, wizardVars>>

BossSuggestCall ==
  /\ dToken # <<>>
  /\ dOut = <<>>
  /\ dOut' = <<[fn |-> "getBossSuggestions", list |-> getBossSuggestions(dToken, dValues, 5)]>>
  /\ UNCHANGED <<dValues, dToken, parseVars, aggVars, streakVars, windowVars, envVars, wizardVars>>

\* the resolver shows the parsed line: its suggestions memo
ResolverShown ==
  /\ pOut # <<>>
  /\ pOut[1].issues # <<>>
  /\ dValues = <<>> /\ dToken = <<>>
  /\ dOut = <<>>
  /\ dOut' = <<[fn |-> "LineResolver",
                list |-> ResolverSuggestions(pOut[1], pTables.users,
                           [i \in 1..Len(pTables.bosses) |-> pTables.bosses[i].boss])]>>
  /\ UNCHANGED <<dValues, dToken, parseVars, aggVars, streakVars, windowVars, envVars, wizardVars>>

SummaryStep ==
  /\ aRows = <<>>
  /\ aRows' = <<computeWeeklySummary(aLines, BossPointsMap(aBosses), aUsers, aThresholds)>>
  /\ UNCHANGED <<aLines, aBosses, aUsers, aThresholds, parseVars, streakVars, windowVars, listVars, envVars, wizardVars>>

StreakStep ==
  /\ hOut = <<>>
  /\ hOut' = <<recomputeStreaks(hRows, hWeeks)>>
  /\ UNCHANGED <<hRows, hWeeks, parseVars, aggVars, windowVars, listVars, envVars, wizardVars>>

WindowStep ==
  /\ fOut = <<>>
  /\ fOut' = <<parseCurrentFile(fLines, fTables.users, fTables.bosses, fTables.nameAliases,
                                fTables.bossAliases, fWeekStart, fTz)>>
  /\ fMerged' = MergedLines(fLines)
  /\ UNCHANGED <<fLines, fTables, fWeekStart, fTz, parseVars, aggVars, streakVars, listVars, envVars, wizardVars>>

(***************************************************************************)
(* The wizard: WizardPage.tsx as a state machine                           *)
(***************************************************************************)
unresolved == unresolvedIndexes(parsedLines, discardedLines)

\* canRunCalculation without the test of the unresolved lines
canRunCalculationAnyLines ==
  hasParsed /\ Len(canonicalUsers) > 0 /\ weekStartUtcDate # NoDate

canRunCalculation ==
  hasParsed /\ Len(unresolved) = 0 /\ Len(canonicalUsers) > 0 /\ weekStartUtcDate # NoDate

\* `${weekId}|${parseVersion}|${discardedLines.size}`
autoCalcKey ==
  <<IF weekStartUtcDate # NoDate THEN toWeekId(weekStartUtcDate) ELSE NoDate,
    parseVersion, Cardinality(discardedLines)>>

\* the guards of the two effects; an effect runs right after the render that
\* enables it, before any other event is handled
AutoLoadEnabled == ~autoLoadAttempted /\ ~busy /\ Len(setupTasks) < limits.loads
\* the guard of the auto-calc effect without the test of the key
AutoCalcEnabledAnyKey ==
  /\ ~busy
  /\ canRunCalculation
  /\ Len(saveTasks) < limits.saves

AutoCalcEnabled ==
  /\ ~busy
  /\ canRunCalculation
  /\ lastAutoCalcRef # <<autoCalcKey>>
  /\ Len(saveTasks) < limits.saves
EffectPending == AutoLoadEnabled \/ AutoCalcEnabled

SetupTask(kind) ==
  [kind |-> kind, rawLines |-> rawLines, weekStartUtcDate |-> weekStartUtcDate,
   timezone |-> timezone, loaded |-> <<>>]

\* loadSetupData answers from the cache: cached && cached.key === cacheKey &&
\* Date.now() - cached.loadedAt < 180000 (one set of sheets: one key; forceRefresh
\* is passed by no caller)
CacheServed ==
  /\ setupCacheRef # <<>>
  /\ nowMs - setupCacheRef[1].loadedAt < CacheTtlMs

\* the effect that loads the saved setup when the page mounts (the cache is empty)
AutoLoadSetup ==
  /\ AutoLoadEnabled
  /\ autoLoadAttempted' = TRUE
  /\ error' = ""
  /\ busy' = TRUE
  /\ setupTasks' = Append(setupTasks, SetupTask("auto"))
  /\ UNCHANGED <<harnessVars, fileVars, setupVars, weekStartUtcDate, timezone, resultRows,
                 selectedStoredWeek, setupCacheRef, lastAutoCalcRef, sheetVars,
                 saveTasks, viewTasks, resolveTasks>>

\* <input type="file"> onChange
onFileChange(file) ==
  /\ ~EffectPending
  /\ parseVersion < limits.parses
  /\ error' = ""
  /\ rawLines' = file
  /\ parsedLines' = <<>>
  /\ discardedLines' = {}
  /\ resultRows' = <<>>
  /\ parseVersion' = parseVersion + 1
  /\ hasParsed' = FALSE
  /\ UNCHANGED <<harnessVars, setupVars, weekStartUtcDate, timezone, busy, selectedStoredWeek,
                 autoLoadAttempted, setupCacheRef, lastAutoCalcRef, sheetVars, taskVars>>

\* <input type="date"> onChange
setWeekStartUtcDate(date) ==
  /\ ~EffectPending
  /\ date # weekStartUtcDate
  /\ weekStartUtcDate' = date
  /\ UNCHANGED <<harnessVars, fileVars, setupVars, timezone, error, busy, resultRows, selectedStoredWeek,
                 autoLoadAttempted, setupCacheRef, lastAutoCalcRef, sheetVars, taskVars>>

\* applySetupBundle, then the parse loadSetupData does when a file is loaded, then
\* what runWeekFlow does after the await; task holds the values of the closure
\* the number of parses the task runs: one in loadSetupData when a file is
\* loaded, one in runWeekFlow
Parses(task) ==
  (IF Len(task.rawLines) > 0 THEN 1 ELSE 0) + (IF task.kind = "flow" THEN 1 ELSE 0)

SetupAppliedParsed(task, loaded, parses, reparsed) ==
  /\ parseVersion + parses <= limits.parses
  /\ canonicalUsers' = loaded.users
  /\ bosses' = loaded.bosses
  /\ bossAliases' = loaded.bossAliases
  /\ nameAliases' = loaded.nameAliases
  /\ config' = loaded.config
  /\ storedWeeks' = WeekIdsDescending(loaded.weeks)
  /\ parsedLines' = IF parses > 0 THEN reparsed ELSE parsedLines
  /\ parseVersion' = parseVersion + parses
  /\ hasParsed' = IF parses > 0 THEN TRUE ELSE hasParsed
  /\ discardedLines' = IF task.kind = "flow" THEN {} ELSE discardedLines
  /\ busy' = FALSE
  /\ UNCHANGED rawLines

SetupApplied(task, loaded) ==
  SetupAppliedParsed(task, loaded, Parses(task),
    parseCurrentFile(task.rawLines, loaded.users, loaded.bosses, loaded.nameAliases,
                     loaded.bossAliases, task.weekStartUtcDate, task.timezone))

\* Run DKP Flow, the setup being answered from setupCacheRef (younger than 180 s)
runWeekFlowCached ==
  /\ ~EffectPending
  /\ ~busy
  /\ Len(rawLines) > 0
  /\ CacheServed
  /\ error' = ""
  /\ lastAutoCalcRef' = <<>>
  /\ SetupApplied(SetupTask("flow"), setupCacheRef[1].data)
  /\ UNCHANGED <<harnessVars, weekStartUtcDate, timezone, resultRows, selectedStoredWeek,
                 autoLoadAttempted, setupCacheRef, sheetVars, taskVars>>

\* Run DKP Flow, the setup being read from the sheets
runWeekFlow ==
  /\ ~EffectPending
  /\ ~busy
  /\ Len(rawLines) > 0
  /\ ~CacheServed
  /\ Len(setupTasks) < limits.loads
  /\ error' = ""
  /\ lastAutoCalcRef' = <<>>
  /\ busy' = TRUE
  /\ setupTasks' = Append(setupTasks, SetupTask("flow"))
  /\ UNCHANGED <<harnessVars, fileVars, setupVars, weekStartUtcDate, timezone, resultRows,
                 selectedStoredWeek, autoLoadAttempted, setupCacheRef, sheetVars,
                 saveTasks, viewTasks, resolveTasks>>

\* the sheets answer loadSetupBundle: the rows of this moment travel back
SetupRead(i) ==
  /\ ~EffectPending
  /\ setupTasks[i].loaded = <<>>
  /\ setupTasks' = [setupTasks EXCEPT ![i].loaded = <<loadSetupBundle(sheetSetup, sheetWeeks)>>]
  /\ UNCHANGED <<harnessVars, fileVars, setupVars, weekStartUtcDate, timezone, error, busy,
                 resultRows, selectedStoredWeek, autoLoadAttempted, setupCacheRef,
                 lastAutoCalcRef, sheetVars, saveTasks, viewTasks, resolveTasks>>

\* loadSetupData goes on after the await: the cache is stored, the bundle applied
SetupLoaded(i) ==
  /\ ~EffectPending
  /\ setupTasks[i].loaded # <<>>
  /\ SetupApplied(setupTasks[i], setupTasks[i].loaded[1])
  /\ setupCacheRef' = <<[loadedAt |-> nowMs, data |-> setupTasks[i].loaded[1]]>>
  /\ setupTasks' = RemoveAt(setupTasks, i)
  /\ UNCHANGED <<harnessVars, weekStartUtcDate, timezone, error, resultRows, selectedStoredWeek,
                 autoLoadAttempted, lastAutoCalcRef, sheetVars, saveTasks, viewTasks, resolveTasks>>

\* loadSetupData throws
SetupFailed(i) ==
  /\ ~EffectPending
  /\ error' = "Run DKP Flow failed."
  /\ busy' = FALSE
  /\ setupTasks' = RemoveAt(setupTasks, i)
  /\ UNCHANGED <<harnessVars, fileVars, setupVars, weekStartUtcDate, timezone, resultRows,
                 selectedStoredWeek, autoLoadAttempted, setupCacheRef, lastAutoCalcRef,
                 sheetVars, saveTasks, viewTasks, resolveTasks>>

\* Discard on the line the resolver shows (any unresolved line, by Next Issue)
handleDiscardLine(lineNumber) ==
  /\ ~EffectPending
  /\ parseVersion < limits.parses
  /\ discardedLines' = discardedLines \cup {lineNumber}
  /\ parseVersion' = parseVersion + 1
  /\ UNCHANGED <<harnessVars, rawLines, parsedLines, hasParsed, setupVars, uiVars, sheetVars, taskVars>>

\* the draft of the resolver: the rawText of the line it shows, or what the
\* operator typed over it (each keystroke puts the draft at the line's place in
\* rawLines by handleEditLine, as Check Line does again)
Drafts(currentParsed) == {currentParsed.rawText} \cup EditPool

\* Check Line (or Enter) on the line the resolver shows, the draft being value
handleCheckLine(lineNumber, value) ==
  /\ ~EffectPending
  /\ parseVersion < limits.parses
  /\ rawLines' = [rawLines EXCEPT ![lineNumber] = value]
  /\ parsedLines' = parseCurrentFile([rawLines EXCEPT ![lineNumber] = value], canonicalUsers,
                                     bosses, nameAliases, bossAliases, weekStartUtcDate, timezone)
  /\ parseVersion' = parseVersion + 1
  /\ hasParsed' = TRUE
  /\ UNCHANGED <<harnessVars, discardedLines, setupVars, uiVars, sheetVars, taskVars>>

(***************************************************************************)
(* WizardPage.tsx: the resolver operations that extend the lookup tables   *)
(***************************************************************************)
\* the appends and re-parses a session goes through
MaxBossRows == 2

\* the first issue of the line the resolver shows is of the given type
ResolverShows(k, type) == parsedLines[k].issues[1].type = type

\* what the closure of a handler holds when it is called
ResolveTask(kind, aliasToken, canonical, points) ==
  [kind |-> kind, alias |-> aliasToken, canonical |-> canonical, points |-> points,
   rawLines |-> rawLines, canonicalUsers |-> canonicalUsers, bosses |-> bosses,
   nameAliases |-> nameAliases, bossAliases |-> bossAliases,
   weekStartUtcDate |-> weekStartUtcDate, timezone |-> timezone]

\* a handler up to its first await
ResolveStarts(task) ==
  /\ ~EffectPending
  /\ Len(resolveTasks) < limits.resolving
  /\ error' = ""
  /\ busy' = TRUE
  /\ resolveTasks' = Append(resolveTasks, task)
  /\ UNCHANGED <<harnessVars, fileVars, setupVars, weekStartUtcDate, timezone, resultRows,
                 selectedStoredWeek, autoLoadAttempted, setupCacheRef, lastAutoCalcRef,
                 sheetVars, setupTasks, saveTasks, viewTasks>>

handleAddNameAlias(aliasToken, canonicalName) ==
  ResolveStarts(ResolveTask("name", aliasToken, canonicalName, 0))

handleAddBossAlias(aliasToken, canonicalBoss) ==
  ResolveStarts(ResolveTask("bossAlias", aliasToken, canonicalBoss, 0))

handleAddBoss(aliasToken, canonicalBoss, points) ==
  ResolveStarts(ResolveTask("boss", aliasToken, canonicalBoss, points))

\* the tables a handler builds after its appends: the captured ones plus its own row
NextNameAliases(task) ==
  IF task.kind = "name"
  THEN Append(task.nameAliases, Alias(task.alias, task.canonical)) ELSE task.nameAliases
NextBossAliases(task) ==
  IF task.kind = "name"
  THEN task.bossAliases ELSE Append(task.bossAliases, Alias(task.alias, task.canonical))
NextBosses(task) ==
  IF task.kind = "boss"
  THEN Append(task.bosses, Boss(task.canonical, task.points)) ELSE task.bosses

\* persistBoss / persistAlias: the rows appended to the tabs
Persisted(setup, task) ==
  [setup EXCEPT
     !.bosses = IF task.kind = "boss" THEN Append(@, Boss(task.canonical, task.points)) ELSE @,
     !.bossAliases = IF task.kind = "name" THEN @ ELSE Append(@, Alias(task.alias, task.canonical)),
     !.nameAliases = IF task.kind = "name" THEN Append(@, Alias(task.alias, task.canonical)) ELSE @]

\* the handler after its appends, given the three tables it sets
ResolveApplied(i, task, nextBosses, nextNameAliases, nextBossAliases) ==
  /\ ~EffectPending
  /\ parseVersion < limits.parses
  /\ sheetSetup' = Persisted(sheetSetup, task)
  /\ setupCacheRef' = <<>>
  /\ bosses' = IF task.kind = "boss" THEN nextBosses ELSE bosses
  /\ nameAliases' = IF task.kind = "name" THEN nextNameAliases ELSE nameAliases
  /\ bossAliases' = IF task.kind = "name" THEN bossAliases ELSE nextBossAliases
  /\ parsedLines' = parseCurrentFile(task.rawLines, task.canonicalUsers, nextBosses,
                                     nextNameAliases, nextBossAliases,
                                     task.weekStartUtcDate, task.timezone)
  /\ parseVersion' = parseVersion + 1
  /\ hasParsed' = TRUE
  /\ busy' = FALSE
  /\ resolveTasks' = RemoveAt(resolveTasks, i)
  /\ UNCHANGED <<harnessVars, rawLines, discardedLines, canonicalUsers, config, storedWeeks,
                 weekStartUtcDate, timezone, error, resultRows, selectedStoredWeek,
                 autoLoadAttempted, lastAutoCalcRef, sheetWeeks, sheetTotals, sheetBreakdown,
                 setupTasks, saveTasks, viewTasks>>

\* the appends are answered: the handler extends the tables of its closure
ResolveDone(i) ==
  ResolveApplied(i, resolveTasks[i], NextBosses(resolveTasks[i]),
                 NextNameAliases(resolveTasks[i]), NextBossAliases(resolveTasks[i]))

\* a handler that sets its tables before its appends are answered
ResolveFailedAfterSet(i, bossWritten) ==
  /\ ~EffectPending
  /\ bossWritten => resolveTasks[i].kind = "boss" /\ Len(sheetSetup.bosses) < MaxBossRows
  /\ error' = "Unable to add."
  /\ busy' = FALSE
  /\ nameAliases' = NextNameAliases(resolveTasks[i])
  /\ bossAliases' = NextBossAliases(resolveTasks[i])
  /\ resolveTasks' = RemoveAt(resolveTasks, i)
  /\ UNCHANGED <<harnessVars, fileVars, canonicalUsers, bosses, config, storedWeeks,
                 weekStartUtcDate, timezone, resultRows, selectedStoredWeek, autoLoadAttempted,
                 setupCacheRef, lastAutoCalcRef, sheetVars, setupTasks, saveTasks, viewTasks>>

\* an append throws; in handleAddBoss the boss row may be in the tab by then
ResolveFailed(i, bossWritten) ==
  /\ ~EffectPending
  /\ bossWritten => resolveTasks[i].kind = "boss" /\ Len(sheetSetup.bosses) < MaxBossRows
  /\ error' = "Unable to add."
  /\ busy' = FALSE
  /\ sheetSetup' = IF bossWritten
                   THEN [sheetSetup EXCEPT !.bosses =
                           Append(@, Boss(resolveTasks[i].canonical, resolveTasks[i].points))]
                   ELSE sheetSetup
  /\ setupCacheRef' = IF bossWritten THEN <<>> ELSE setupCacheRef
  /\ resolveTasks' = RemoveAt(resolveTasks, i)
  /\ UNCHANGED <<harnessVars, fileVars, setupVars, weekStartUtcDate, timezone, resultRows,
                 selectedStoredWeek, autoLoadAttempted, lastAutoCalcRef,
                 sheetWeeks, sheetTotals, sheetBreakdown, setupTasks, saveTasks, viewTasks>>

\* a filter that looks at the issues only
InScopeWithDiscarded(linesToUse, discarded) ==
  SelectSeq(linesToUse, LAMBDA line : Len(line.issues) = 0)

\* calculateAndSaveFromParsed up to the first await
InScope(linesToUse, discarded) ==
  SelectSeq(linesToUse, LAMBDA line : line.lineNumber \notin discarded /\ Len(line.issues) = 0)

Summary(linesToUse) ==
  computeWeeklySummary(InScope(linesToUse, discardedLines), BossPointsMap(bosses), canonicalUsers,
                       [lowMax |-> ConfigNumber(config, "activity_low_max", <<"4">>),
                        mediumMax |-> ConfigNumber(config, "activity_medium_max", <<"9">>)])

\* the auto-calculation effect
AutoCalc ==
  /\ AutoCalcEnabled
  /\ lastAutoCalcRef' = <<autoCalcKey>>
  /\ error' = ""
  /\ busy' = TRUE
  /\ saveTasks' = Append(saveTasks,
       [phase |-> "reading",
        weekId |-> toWeekId(weekStartUtcDate),
        lines |-> InScope(parsedLines, discardedLines),
        rows |-> Summary(parsedLines),
        weekStartUtcDate |-> weekStartUtcDate,
        timezone |-> timezone,
        weekExists |-> FALSE, shouldOverwrite |-> FALSE,
        weeks |-> <<>>, historical |-> <<>>, breakdown |-> <<>>])
  /\ UNCHANGED <<harnessVars, fileVars, setupVars, weekStartUtcDate, timezone, resultRows,
                 selectedStoredWeek, autoLoadAttempted, setupCacheRef, sheetVars,
                 setupTasks, viewTasks, resolveTasks>>

\* saveWeeklyData: the sheets answer loadWeekStorageBundle, the user accepts the
\* overwrite if the week exists, and the three replaceTabRows calls are issued
\* with the rows computed from what was read
\* weeks.some((week) => week.weekId === weekId)
WeekExists(weeks, weekId) == \E k \in 1..Len(weeks) : weeks[k].weekId = weekId

\* the rows saveWeeklyData computes from what it read, given the updated weeks;
\* window.confirm is shown when the week exists and was answered OK
Writing(task, weeks) ==
  [task EXCEPT !.phase = "writing",
               !.weekExists = WeekExists(sheetWeeks, task.weekId),
               !.shouldOverwrite = WeekExists(sheetWeeks, task.weekId),
               !.weeks = weeks,
               !.historical = SortTotals(recomputeStreaks(
                                Historical(sheetTotals, task.weekId, task.rows), WeekIds(weeks))),
               !.breakdown = UpdatedBreakdown(sheetBreakdown, task.weekId, task.rows)]

SaveLoaded(i) ==
  /\ ~EffectPending
  /\ saveTasks[i].phase = "reading"
  /\ saveTasks' = [saveTasks EXCEPT ![i] =
       Writing(saveTasks[i],
               UpdatedWeeks(sheetWeeks, saveTasks[i].weekId, saveTasks[i].weekStartUtcDate,
                            saveTasks[i].timezone))]
  /\ UNCHANGED <<harnessVars, fileVars, setupVars, uiVars, sheetVars, setupTasks, viewTasks, resolveTasks>>

\* SaveCancelled with the week's rows already taken out of the Weeks tab
SaveCancelledAfterWrite(i) ==
  /\ ~EffectPending
  /\ saveTasks[i].phase = "reading"
  /\ WeekExists(sheetWeeks, saveTasks[i].weekId)
  /\ error' = "Save cancelled by user."
  /\ busy' = FALSE
  /\ saveTasks' = RemoveAt(saveTasks, i)
  /\ sheetWeeks' = SelectSeq(sheetWeeks, LAMBDA week : week.weekId # saveTasks[i].weekId)
  /\ UNCHANGED <<harnessVars, fileVars, setupVars, weekStartUtcDate, timezone, resultRows,
                 selectedStoredWeek, autoLoadAttempted, setupCacheRef, lastAutoCalcRef,
                 sheetSetup, sheetTotals, sheetBreakdown, setupTasks, viewTasks, resolveTasks>>

\* saveWeeklyData: the week exists and the user declines the overwrite
SaveCancelled(i) ==
  /\ ~EffectPending
  /\ saveTasks[i].phase = "reading"
  /\ WeekExists(sheetWeeks, saveTasks[i].weekId)
  /\ error' = "Save cancelled by user."
  /\ busy' = FALSE
  /\ saveTasks' = RemoveAt(saveTasks, i)
  /\ UNCHANGED <<harnessVars, fileVars, setupVars, weekStartUtcDate, timezone, resultRows,
                 selectedStoredWeek, autoLoadAttempted, setupCacheRef, lastAutoCalcRef,
                 sheetVars, setupTasks, viewTasks, resolveTasks>>

\* saveWeeklyData: loadWeekStorageBundle throws
SaveReadFailed(i) ==
  /\ ~EffectPending
  /\ saveTasks[i].phase = "reading"
  /\ error' = "Auto-calculation failed."
  /\ busy' = FALSE
  /\ saveTasks' = RemoveAt(saveTasks, i)
  /\ UNCHANGED <<harnessVars, fileVars, setupVars, weekStartUtcDate, timezone, resultRows,
                 selectedStoredWeek, autoLoadAttempted, setupCacheRef, lastAutoCalcRef,
                 sheetVars, setupTasks, viewTasks, resolveTasks>>

\* the three replaceTabRows calls complete, saveWeeklyData returns and
\* calculateAndSaveFromParsed shows the rows
SaveDone(i) ==
  LET task == saveTasks[i]
  IN /\ ~EffectPending
     /\ task.phase = "writing"
     /\ sheetWeeks' = task.weeks
     /\ sheetTotals' = TotalsRows(task.historical)
     /\ sheetBreakdown' = task.breakdown
     /\ storedWeeks' = WeekIdsDescending(task.weeks)
     /\ setupCacheRef' = <<>>
     /\ resultRows' = SavedRows(task.rows, task.historical, WeekIds(task.weeks), task.weekId)
     /\ selectedStoredWeek' = task.weekId
     /\ busy' = FALSE
     /\ saveTasks' = RemoveAt(saveTasks, i)
     /\ UNCHANGED <<harnessVars, fileVars, canonicalUsers, bosses, bossAliases, nameAliases, config,
                    weekStartUtcDate, timezone, error, autoLoadAttempted, lastAutoCalcRef,
                    sheetSetup, setupTasks, viewTasks, resolveTasks>>

\* the stored-week <select>
setSelectedStoredWeek(weekId) ==
  /\ ~EffectPending
  /\ weekId # selectedStoredWeek
  /\ selectedStoredWeek' = weekId
  /\ UNCHANGED <<harnessVars, fileVars, setupVars, weekStartUtcDate, timezone, error, busy, resultRows,
                 autoLoadAttempted, setupCacheRef, lastAutoCalcRef, sheetVars, taskVars>>

\* Load Week
loadStoredWeekView ==
  /\ ~EffectPending
  /\ selectedStoredWeek # NoDate
  /\ Len(viewTasks) < limits.loads
  /\ error' = ""
  /\ busy' = TRUE
  /\ viewTasks' = Append(viewTasks, [weekId |-> selectedStoredWeek])
  /\ UNCHANGED <<harnessVars, fileVars, setupVars, weekStartUtcDate, timezone, resultRows,
                 selectedStoredWeek, autoLoadAttempted, setupCacheRef, lastAutoCalcRef,
                 sheetVars, setupTasks, saveTasks, resolveTasks>>

\* the sheets answer loadStoredWeekView
ViewLoaded(i) ==
  /\ ~EffectPending
  /\ resultRows' = StoredWeekRows(viewTasks[i].weekId, sheetTotals, sheetBreakdown)
  /\ busy' = FALSE
  /\ viewTasks' = RemoveAt(viewTasks, i)
  /\ UNCHANGED <<harnessVars, fileVars, setupVars, weekStartUtcDate, timezone, error, selectedStoredWeek,
                 autoLoadAttempted, setupCacheRef, lastAutoCalcRef, sheetVars,
                 setupTasks, saveTasks, resolveTasks>>

\* loadWeekStorageBundle throws in loadStoredWeekView
ViewFailed(i) ==
  /\ ~EffectPending
  /\ error' = "Unable to load week."
  /\ busy' = FALSE
  /\ viewTasks' = RemoveAt(viewTasks, i)
  /\ UNCHANGED <<harnessVars, fileVars, setupVars, weekStartUtcDate, timezone, resultRows,
                 selectedStoredWeek, autoLoadAttempted, setupCacheRef, lastAutoCalcRef,
                 sheetVars, setupTasks, saveTasks, resolveTasks>>

\* time goes by between two events
TimePasses(now) ==
  /\ ~EffectPending
  /\ now > nowMs
  /\ nowMs' = now
  /\ UNCHANGED <<parseVars, aggVars, streakVars, windowVars, listVars, limits, rq, wizardVars>>

Next ==
  \/ AutoLoadSetup
  \/ AutoCalc
  \/ \E file \in FilePool : onFileChange(file)
  \/ \E date \in WeekStartPool : setWeekStartUtcDate(date)
  \/ runWeekFlowCached
  \/ runWeekFlow
  \/ \E i \in 1..Len(setupTasks) : SetupRead(i)
  \/ \E i \in 1..Len(setupTasks) : SetupLoaded(i)
  \/ \E i \in 1..Len(setupTasks) : SetupFailed(i)
  \/ \E k \in Range(unresolved) : handleDiscardLine(parsedLines[k].lineNumber)
  \/ \E i \in 1..Len(saveTasks) : SaveLoaded(i)
  \/ \E i \in 1..Len(saveTasks) : SaveCancelled(i)
  \/ \E i \in 1..Len(saveTasks) : SaveReadFailed(i)
  \/ \E i \in 1..Len(saveTasks) : SaveDone(i)
  \/ \E weekId \in Range(storedWeeks) \cap WeekStartPool : setSelectedStoredWeek(weekId)
  \/ loadStoredWeekView
  \/ \E i \in 1..Len(viewTasks) : ViewLoaded(i)
  \/ \E i \in 1..Len(viewTasks) : ViewFailed(i)
  \/ \E now \in limits.clock : TimePasses(now)

\* the events of a session under way
NextSession ==
  \/ AutoCalc
  \/ runWeekFlowCached
  \/ runWeekFlow
  \/ \E i \in 1..Len(setupTasks) : SetupRead(i)
  \/ \E i \in 1..Len(setupTasks) : SetupLoaded(i)
  \/ \E i \in 1..Len(setupTasks) : SetupFailed(i)
  \/ \E k \in Range(unresolved) : handleDiscardLine(parsedLines[k].lineNumber)
  \/ \E k \in Range(unresolved), canonicalName \in Range(canonicalUsers) :
       /\ ResolverShows(k, "UnknownName")
       /\ handleAddNameAlias(parsedLines[k].issues[1].token, canonicalName)
  \/ \E k \in Range(unresolved), b \in 1..Len(bosses) :
       /\ ResolverShows(k, "UnknownBoss")
       /\ handleAddBossAlias(parsedLines[k].issues[1].token, bosses[b].boss)
  \/ \E i \in 1..Len(resolveTasks) : ResolveDone(i)
  \/ \E i \in 1..Len(resolveTasks), bossWritten \in BOOLEAN : ResolveFailed(i, bossWritten)
  \/ \E i \in 1..Len(saveTasks) : SaveLoaded(i)
  \/ \E i \in 1..Len(saveTasks) : SaveCancelled(i)
  \/ \E i \in 1..Len(saveTasks) : SaveReadFailed(i)
  \/ \E i \in 1..Len(saveTasks) : SaveDone(i)
  \/ \E now \in limits.clock : TimePasses(now)

\* the events of the resolver's editor
NextEdit ==
  \/ \E k \in Range(unresolved), value \in EditPool \cup {line.rawText : line \in Range(parsedLines)} :
       /\ value \in Drafts(parsedLines[k])
       /\ handleCheckLine(parsedLines[k].lineNumber, value)
  \/ \E k \in Range(unresolved) : handleDiscardLine(parsedLines[k].lineNumber)

\* the events of a session in which lines are discarded
NextDiscard ==
  \/ \E k \in Range(unresolved) : handleDiscardLine(parsedLines[k].lineNumber)
  \/ \E k \in Range(unresolved), value \in EditPool \cup {line.rawText : line \in Range(parsedLines)} :
       /\ value \in Drafts(parsedLines[k])
       /\ handleCheckLine(parsedLines[k].lineNumber, value)
  \/ \E k \in Range(unresolved), canonicalName \in Range(canonicalUsers) :
       /\ ResolverShows(k, "UnknownName")
       /\ handleAddNameAlias(parsedLines[k].issues[1].token, canonicalName)
  \/ \E i \in 1..Len(resolveTasks) : ResolveDone(i)
  \/ AutoCalc
  \/ \E i \in 1..Len(saveTasks) : SaveLoaded(i)
  \/ \E i \in 1..Len(saveTasks) : SaveDone(i)
  \/ \E file \in DiscardFilePool : onFileChange(file)
  \/ runWeekFlowCached
  \/ runWeekFlow
  \/ \E i \in 1..Len(setupTasks) : SetupRead(i)
  \/ \E i \in 1..Len(setupTasks) : SetupLoaded(i)

\* the events of a session that saves weeks and looks at stored ones
NextOverlap ==
  \/ AutoCalc
  \/ \E date \in WeekStartPool : setWeekStartUtcDate(date)
  \/ \E i \in 1..Len(saveTasks) : SaveLoaded(i)
  \/ \E i \in 1..Len(saveTasks) : SaveCancelled(i)
  \/ \E i \in 1..Len(saveTasks) : SaveReadFailed(i)
  \/ \E i \in 1..Len(saveTasks) : SaveDone(i)
  \/ \E weekId \in Range(storedWeeks) \cap WeekStartPool : setSelectedStoredWeek(weekId)
  \/ loadStoredWeekView
  \/ \E i \in 1..Len(viewTasks) : ViewLoaded(i)
  \/ \E i \in 1..Len(viewTasks) : ViewFailed(i)

\* one call of request and what the network does to it
NextRequest ==
  \/ \E method \in MethodPool : RequestCall(method)
  \/ \E status \in StatusPool, header \in RetryAfterPool, jitter \in JitterPool :
       FetchAnswers(status, header, jitter)
  \/ FetchRejects
  \/ SleepDone

NextParse == ParseStep
NextAgg == SummaryStep
NextLists == ParseStep \/ DedupeCall \/ NameSuggestCall \/ BossSuggestCall \/ ResolverShown
NextHistory == StreakStep
NextFile == WindowStep
NextLine == ParseCall \/ WindowCall

\* the resolver: the three operations on the line it shows, and their ends
NextResolve ==
  \/ \E k \in Range(unresolved), canonicalName \in Range(canonicalUsers) :
       /\ ResolverShows(k, "UnknownName")
       /\ handleAddNameAlias(parsedLines[k].issues[1].token, canonicalName)
  \/ \E k \in Range(unresolved), b \in 1..Len(bosses) :
       /\ ResolverShows(k, "UnknownBoss")
       /\ handleAddBossAlias(parsedLines[k].issues[1].token, bosses[b].boss)
  \/ \E k \in Range(unresolved), newBossName \in NewBossPool, points \in NewBossPoints :
       /\ ResolverShows(k, "UnknownBoss")
       /\ handleAddBoss(parsedLines[k].issues[1].token, newBossName, points)
  \/ \E i \in 1..Len(resolveTasks) : ResolveDone(i)
  \/ \E i \in 1..Len(resolveTasks), bossWritten \in BOOLEAN : ResolveFailed(i, bossWritten)

SpecResolve == InitResolve /\ [][NextResolve]_vars
SpecSession == InitSession /\ [][NextSession]_vars
SpecEdit == InitEdit /\ [][NextEdit]_vars
SpecOverlap == InitOverlap /\ [][NextOverlap]_vars
SpecDiscard == InitDiscard /\ [][NextDiscard]_vars
\* fetch settles and timers fire
SpecRequest ==
  InitRequest /\ [][NextRequest]_vars
    /\ WF_vars(\E status \in StatusPool, header \in RetryAfterPool, jitter \in JitterPool :
                  FetchAnswers(status, header, jitter))
    /\ WF_vars(SleepDone)
SpecNames == InitNames /\ [][NextParse]_vars
SpecBoss == InitBoss /\ [][NextParse]_vars
SpecAgg == InitAgg /\ [][NextAgg]_vars
SpecHistory == InitHistory /\ [][NextHistory]_vars
SpecFile == InitFile /\ [][NextFile]_vars
SpecLine == InitLine /\ [][NextLine]_vars
SpecLists == InitLists /\ [][NextLists]_vars
SpecTally == InitTally /\ [][NextAgg]_vars
SpecMerge == InitMerge /\ [][NextFile]_vars
Spec == Init /\ [][Next]_vars

(***************************************************************************)
(* Properties of the parser                                                *)
(***************************************************************************)
KeysOf(names) == {normalizeKey(names[i]) : i \in 1..Len(names)}
IsNotWord(token) == toLowerCase(token) = tNot
IssuesOfType(p, type) == {j \in 1..Len(p.issues) : p.issues[j].type = type}
\* the parse reached the boss and name steps
NamesStepReached(p) == p.bossRaw # Undefined

\* C2: no name, compared by normalized key, is in both addNames and subtractNames of
\* a parsed line; "Hydra Alice not Alice" yields two empty lists.
C2_NoNameOnBothSides ==
  \A k \in 1..Len(pOut) :
    /\ KeysOf(pOut[k].addNames) \cap KeysOf(pOut[k].subtractNames) = {}
    /\ (pTables = TablesA /\ pParts.names = <<tAl, tNot, tAl>>)
         => (pOut[k].addNames = <<>> /\ pOut[k].subtractNames = <<>>)

C2_Witness ==
  /\ pOut # <<>>
  /\ pTables = TablesA
  /\ pParts.names = <<tAl, tNot, tAlDot>>
  /\ pOut[1].issues = <<>>
  /\ pOut[1].addNames = <<>>
  /\ pOut[1].subtractNames = <<>>

\* what the tables say about a token, stated without the parser: the token is
\* mapped through at most one alias row and must then be a roster user
C3_AliasTarget(token) ==
  LET rows == pTables.nameAliases
      hits == {i \in 1..Len(rows) : normalizeKey(rows[i].alias) = normalizeKey(token)}
  IN IF hits = {} THEN token
     ELSE IF rows[MaxOf(hits)].canonical = <<>> THEN token
     ELSE rows[MaxOf(hits)].canonical
C3_Resolves(token) ==
  /\ normalizeKey(token) # <<>>
  /\ \E u \in Range(pTables.users) : normalizeKey(u) = normalizeKey(C3_AliasTarget(token))
C3_KeyOf(token) == normalizeKey(C3_AliasTarget(token))

\* C3: every addNames / subtractNames entry is a roster user; a name token that
\* cannot be resolved gives one UnknownName issue carrying it, stays out of the
\* lists and does not keep the other tokens of the line from being resolved.
C3_OnlyRosterNames ==
  \A k \in 1..Len(pOut) :
    LET p == pOut[k]
        names == pParts.names
        listed == Range(p.addNames) \cup Range(p.subtractNames)
    IN NamesStepReached(p) =>
         /\ listed \subseteq Range(pTables.users)
         /\ \A n \in listed :
              \E j \in 1..Len(names) : C3_Resolves(names[j]) /\ C3_KeyOf(names[j]) = normalizeKey(n)
         /\ \A i \in 1..Len(names) :
              (~IsNotWord(names[i]) /\ ~C3_Resolves(names[i])) =>
                Cardinality({j \in IssuesOfType(p, "UnknownName") : p.issues[j].token = names[i]})
                  = Cardinality({j \in 1..Len(names) : names[j] = names[i]})
         /\ \A i \in 1..Len(names) :
              (~IsNotWord(names[i]) /\ C3_Resolves(names[i])) =>
                \/ C3_KeyOf(names[i]) \in KeysOf(p.addNames) \cup KeysOf(p.subtractNames)
                \/ \E a, b, c \in 1..Len(names) :
                     /\ a < b /\ b < c /\ IsNotWord(names[b])
                     /\ C3_Resolves(names[a]) /\ C3_Resolves(names[c])
                     /\ C3_KeyOf(names[a]) = C3_KeyOf(names[i])
                     /\ C3_KeyOf(names[c]) = C3_KeyOf(names[i])

\* an unknown token first, and the tokens after it are still resolved
C3_Witness ==
  /\ pOut # <<>>
  /\ pTables = TablesA
  /\ pParts.names = <<tZed, tAy, tBo>>
  /\ pOut[1].addNames = <<tAl, tBo>>
  /\ Cardinality(IssuesOfType(pOut[1], "UnknownName")) = 1

\* C4: with more than one "not" among the name tokens the line gets a
\* MultipleNotTokens issue and the first "not" is the split point: the add
\* names come from the tokens before it and the subtract names from those after.
C4_FirstNotIsSplitPoint ==
  \A k \in 1..Len(pOut) :
    LET p == pOut[k]
        names == pParts.names
        nots == {i \in 1..Len(names) : IsNotWord(names[i])}
    IN (NamesStepReached(p) /\ Cardinality(nots) > 1) =>
         /\ IssuesOfType(p, "MultipleNotTokens") # {}
         /\ \A n \in Range(p.addNames) :
              \E i \in 1..(MinOf(nots) - 1) : C3_Resolves(names[i]) /\ C3_KeyOf(names[i]) = normalizeKey(n)
         /\ \A n \in Range(p.subtractNames) :
              \E i \in (MinOf(nots) + 1)..Len(names) :
                C3_Resolves(names[i]) /\ C3_KeyOf(names[i]) = normalizeKey(n)

\* the modifier words written on the boss token, lower-cased
ModWords == toLowerCaseAll(Flatten(pParts.mods))
HasMod(words) == \E i \in 1..Len(ModWords) : ModWords[i] \in words
KnownModWords == {brucy, brucybonus, fail, comp, double, doublepoints}

\* C6: modifiers apply once per kind whatever their number, order and repetition:
\* pointsBonus is 5 iff a brucy/brucybonus is there, pointsMultiplier is 0.5 (if any
\* fail/comp) times 2 (if any double/doublepoints); the parenthetical text is
\* removed before the boss is resolved.
C6_ModifiersOncePerKind ==
  \A k \in 1..Len(pOut) :
    LET p == pOut[k]
    IN /\ p.pointsBonus \in {0, 5}
       /\ p.pointsMultiplier \in {Halve(MultiplierOne), MultiplierOne, Twice(MultiplierOne)}
       /\ p.pointsMultiplier > 0
       /\ NamesStepReached(p) =>
            /\ p.pointsBonus = IF HasMod({brucy, brucybonus}) THEN 5 ELSE 0
            /\ p.pointsMultiplier * (IF HasMod({fail, comp}) THEN 2 ELSE 1)
                 = MultiplierOne * (IF HasMod({double, doublepoints}) THEN 2 ELSE 1)
            /\ p.bossRaw = pParts.base
            /\ (pTables = TablesA /\ pParts.base \in {tHy, tHd}) => p.bossCanonical = tHy
            /\ (pParts.mods = <<<<brucy>>, <<double>>>>)
                 => (p.pointsBonus = 5 /\ p.pointsMultiplier = Twice(MultiplierOne))

\* "double" written twice doubles once
C6_Witness ==
  /\ pOut # <<>>
  /\ pParts.mods = <<<<double>>, <<double>>>>
  /\ pParts.base = tHd
  /\ pTables = TablesA
  /\ pOut[1].bossCanonical = tHy
  /\ pOut[1].pointsMultiplier = Twice(MultiplierOne)

\* the line without its unrecognized modifier words
C7_WithoutUnknown ==
  [pParts EXCEPT !.mods =
     [g \in 1..Len(pParts.mods) |->
        SelectSeq(pParts.mods[g], LAMBDA w : toLowerCase(w) \in KnownModWords)]]

\* C7: an unrecognized modifier word gives one UnknownModifier issue carrying it and
\* nothing else changes: the boss, the recognized modifiers and the names come out
\* as they do for the same line without that word.
C7_UnknownModifierIsReported ==
  \A k \in 1..Len(pOut) :
    LET p == pOut[k]
        ref == parseLine(LineOf(C7_WithoutUnknown), 1, pTz, LookupOf(pTables))
    IN NamesStepReached(p) =>
         /\ \A i \in 1..Len(ModWords) :
              ModWords[i] \notin KnownModWords =>
                Cardinality({j \in IssuesOfType(p, "UnknownModifier") : p.issues[j].token = ModWords[i]})
                  = Cardinality({j \in 1..Len(ModWords) : ModWords[j] = ModWords[i]})
         /\ [p EXCEPT !.rawText = ref.rawText,
                      !.issues = SelectSeq(p.issues, LAMBDA x : x.type # "UnknownModifier")] = ref

(***************************************************************************)
(* Properties of the aggregation                                           *)
(***************************************************************************)
\* (base + bonus) * multiplier of a line, in halves of a point
ExactHalves(line) ==
  LET table == BossPointsMap(aBosses)
      base == IF line.bossCanonical \in DOMAIN table THEN table[line.bossCanonical] ELSE 0
  IN (base + line.pointsBonus) * line.pointsMultiplier
\* p is the exact product when that is an integer, the next integer above it otherwise
IsRoundedUp(p, halves) == 2 * p >= halves /\ 2 * (p - 1) < halves
PointRange == 0 - 40 .. 40
CreditOf(line, name) ==
  IF line.issues = <<>> /\ line.bossCanonical # Undefined
  THEN (CHOOSE p \in PointRange : IsRoundedUp(p, ExactHalves(line)))
         * (CountIn(line.addNames, name) - CountIn(line.subtractNames, name))
  ELSE 0
RowOf(rows, name) == CHOOSE r \in Range(rows) : r.name = name

\* C5: the points a line credits are (base + bonus) * multiplier, rounded up to the
\* next integer when fractional, negative products included: base 3 at 0.5 gives 2
\* and (10 + 5) at 2 gives 30.
C5_PointsRoundedUp ==
  \A k \in 1..Len(aRows) :
    /\ \A name \in Range(aUsers) :
         RowOf(aRows[k], name).totalPoints
           = SumSeq([i \in 1..Len(aLines) |-> CreditOf(aLines[i], name)])
    /\ \A line \in SummaryLinePool :
         aLines = <<line>> /\ line.issues = <<>> /\ tAl \in Range(line.addNames) =>
           /\ ExactHalves(line) = 3 => RowOf(aRows[k], tAl).totalPoints = 2
           /\ ExactHalves(line) = (10 + 5) * 4 => RowOf(aRows[k], tAl).totalPoints = 30

\* a negative fractional product was rounded up: -3 at 0.5 credits -1
C5_Witness ==
  /\ aRows # <<>>
  /\ Len(aLines) = 1
  /\ aLines[1].issues = <<>>
  /\ aLines[1].bossCanonical = tPn
  /\ ExactHalves(aLines[1]) = 0 - 3
  /\ tAl \in Range(aLines[1].addNames)
  /\ RowOf(aRows[1], tAl).totalPoints = 0 - 1

\* a user's tally as the lines are folded in one at a time
NoTally == [total |-> 0, bossPoints |-> [b \in {} |-> 0], bossCounts |-> [b \in {} |-> 0]]
Bump(map, boss, by) ==
  [b \in DOMAIN map \cup {boss} |->
     (IF b \in DOMAIN map THEN map[b] ELSE 0) + (IF b = boss THEN by ELSE 0)]
Credit(tally, boss, points, sign) ==
  [total |-> tally.total + sign * points,
   bossPoints |-> Bump(tally.bossPoints, boss, sign * points),
   bossCounts |-> Bump(tally.bossCounts, boss, sign)]
EffectivePoints(line) == CHOOSE p \in PointRange : IsRoundedUp(p, ExactHalves(line))
AfterAdds(tally, line, name) ==
  IF name \in Range(line.addNames)
  THEN Credit(tally, line.bossCanonical, EffectivePoints(line), 1) ELSE tally
AfterLine(tally, line, name) ==
  IF line.issues # <<>> THEN tally
  ELSE IF name \in Range(line.subtractNames)
       THEN Credit(AfterAdds(tally, line, name), line.bossCanonical, EffectivePoints(line), 0 - 1)
       ELSE AfterAdds(tally, line, name)
RECURSIVE TallyAfter(_, _)
TallyAfter(n, name) ==
  IF n = 0 THEN NoTally ELSE AfterLine(TallyAfter(n - 1, name), aLines[n], name)
NamedIn(name) ==
  {i \in 1..Len(aLines) : name \in Range(aLines[i].addNames) \cup Range(aLines[i].subtractNames)}

\* C23: the summary has exactly one row per roster user; the row holds what folding
\* the lines in one at a time gives: each line without issue adds its effective
\* points to the total and to the boss's points and 1 to the boss's count for each of
\* its addNames and takes the same away for each of its subtractNames; a user named
\* in no line has total 0 and empty boss maps
C23_OneRowPerUserFoldedLines ==
  \A k \in 1..Len(aRows) :
    /\ Len(aRows[k]) = Cardinality(Range(aUsers))
    /\ {aRows[k][i].name : i \in 1..Len(aRows[k])} = Range(aUsers)
    /\ \A i \in 1..Len(aRows[k]) :
         /\ aRows[k][i].totalPoints = TallyAfter(Len(aLines), aRows[k][i].name).total
         /\ aRows[k][i].bossPoints = TallyAfter(Len(aLines), aRows[k][i].name).bossPoints
         /\ aRows[k][i].bossCounts = TallyAfter(Len(aLines), aRows[k][i].name).bossCounts
         /\ NamedIn(aRows[k][i].name) = {} =>
              /\ aRows[k][i].totalPoints = 0
              /\ DOMAIN aRows[k][i].bossPoints = {}
              /\ DOMAIN aRows[k][i].bossCounts = {}

\* three lines were folded in: Al attended Hy twice, Bo lost the points of one of
\* them, a line with an issue was skipped and Zed is in no line
C23_Witness ==
  /\ aRows # <<>>
  /\ aUsers = <<tBo, tZed, tAl>>
  /\ aBosses = TablesA.bosses
  /\ aLines = <<SummaryLine(tHy, 0, 2, <<tAl>>, <<tBo>>, <<>>),
                SummaryLine(tHy, 0, 2, <<tAl>>, <<>>, <<Issue("UnknownName", tZed, <<>>)>>),
                SummaryLine(tHy, 5, 2, <<tAl>>, <<>>, <<>>)>>
  /\ RowOf(aRows[1], tAl).totalPoints = 25
  /\ RowOf(aRows[1], tAl).bossCounts[tHy] = 2
  /\ RowOf(aRows[1], tBo).bossPoints[tHy] = 0 - 10
  /\ RowOf(aRows[1], tZed).totalPoints = 0

RECURSIVE SumOfValues(_)
SumOfValues(map) ==
  IF DOMAIN map = {} THEN 0
  ELSE LET b == CHOOSE k \in DOMAIN map : TRUE
       IN map[b] + SumOfValues([k \in DOMAIN map \ {b} |-> map[k]])
LinesFor(boss) == {i \in 1..Len(aLines) : aLines[i].issues = <<>> /\ aLines[i].bossCanonical = boss}

\* C37: in every row of the summary totalPoints is the sum of the values of
\* bossPoints, and bossCounts[boss] is the number of lines without issue of that
\* boss that add the user minus the number of those that subtract the user
C37_TotalIsSumOfBossPoints ==
  \A k \in 1..Len(aRows) : \A i \in 1..Len(aRows[k]) :
    /\ aRows[k][i].totalPoints = SumOfValues(aRows[k][i].bossPoints)
    /\ \A boss \in DOMAIN aRows[k][i].bossCounts :
         aRows[k][i].bossCounts[boss] =
           Cardinality({n \in LinesFor(boss) : aRows[k][i].name \in Range(aLines[n].addNames)})
             - Cardinality({n \in LinesFor(boss) : aRows[k][i].name \in Range(aLines[n].subtractNames)})

\* C24: in every row of the summary the level is Low exactly when the final total
\* is at most lowMax, Medium exactly when it is above lowMax and at most mediumMax,
\* and High otherwise
C24_LevelsByInclusiveThresholds ==
  \A k \in 1..Len(aRows) : \A i \in 1..Len(aRows[k]) :
    /\ aRows[k][i].totalPoints = TallyAfter(Len(aLines), aRows[k][i].name).total
    /\ aRows[k][i].activityLevel = "Low" <=> aRows[k][i].totalPoints <= aThresholds.lowMax
    /\ aRows[k][i].activityLevel = "Medium" <=>
         /\ aThresholds.lowMax < aRows[k][i].totalPoints
         /\ aRows[k][i].totalPoints <= aThresholds.mediumMax
    /\ aRows[k][i].activityLevel = "High" <=>
         /\ aRows[k][i].totalPoints > aThresholds.lowMax
         /\ aRows[k][i].totalPoints > aThresholds.mediumMax
    /\ aRows[k][i].activityLevel \in {"Low", "Medium", "High"}

\* totals on both thresholds: 4 is Low and 9, reached over two lines, is Medium
C24_Witness ==
  /\ aRows # <<>>
  /\ aThresholds = DefaultThresholds
  /\ Len(aLines) = 2
  /\ RowOf(aRows[1], tAl).totalPoints = 9
  /\ RowOf(aRows[1], tAl).activityLevel = "Medium"
  /\ RowOf(aRows[1], tBo).totalPoints = 0 - 4
  /\ \E users \in {<<tAl, tBo>>} : aUsers = users

\* the positions of a list that hold the first occurrence of their key
FirstOfKey(values) ==
  {i \in 1..Len(values) : \A j \in 1..(i - 1) : normalizeKey(values[j]) # normalizeKey(values[i])}
NoTwoOfOneKey(values) ==
  \A i, j \in 1..Len(values) : i # j => normalizeKey(values[i]) # normalizeKey(values[j])
\* where a name is first named among the name tokens of the line
FirstNamedAt(name) ==
  MinOf({j \in 1..Len(pParts.names) :
           C3_Resolves(pParts.names[j]) /\ C3_KeyOf(pParts.names[j]) = normalizeKey(name)})
InOrderOfFirstNaming(names) ==
  \A i \in 1..(Len(names) - 1) : FirstNamedAt(names[i]) < FirstNamedAt(names[i + 1])

\* C25: dedupePreserveOrder returns the first occurrence of every key of its input,
\* in the order of the input, so no two entries have the same key, and applied to
\* its own result it returns that result; addNames and subtractNames of a parsed
\* line have no two entries of one key and are in the order in which the names
\* are first named on the line
C25_FirstOccurrencesInOrder ==
  /\ dOut # <<>> /\ dOut[1].fn = "dedupePreserveOrder" =>
       /\ dOut[1].list
            = [k \in 1..Cardinality(FirstOfKey(dValues)) |-> dValues[SortedSeq(FirstOfKey(dValues))[k]]]
       /\ NoTwoOfOneKey(dOut[1].list)
       /\ KeysOf(dOut[1].list) = KeysOf(dValues)
  /\ Len(dOut) = 2 => dOut[2] = dOut[1]
  /\ \A n \in 1..Len(pOut) :
       NamesStepReached(pOut[n]) =>
         /\ NoTwoOfOneKey(pOut[n].addNames)
         /\ NoTwoOfOneKey(pOut[n].subtractNames)
         /\ InOrderOfFirstNaming(pOut[n].addNames)
         /\ InOrderOfFirstNaming(pOut[n].subtractNames)

\* 'al. Bo Al al' was reduced to 'al. Bo' and reduced again
C25_Witness ==
  /\ dValues = <<tAlDot, tBo, tAl, tAlLower>>
  /\ Len(dOut) = 2
  /\ dOut[2].list = <<tAlDot, tBo>>

\* names given twice on a line: 'ay Bo Al' lists Al, Bo
C25_NamesWitness ==
  /\ pOut # <<>>
  /\ pTables = TablesA
  /\ pParts.names = <<tAy, tBo, tAl>>
  /\ pOut[1].addNames = <<tAl, tBo>>

\* the strings one edit away from a, with inserted and substituted characters
\* taken from the alphabet
OneEditFrom(a, alphabet) ==
  {SubSeq(a, 1, i - 1) \o SubSeq(a, i + 1, Len(a)) : i \in 1..Len(a)}
    \cup {[a EXCEPT ![i] = c] : i \in 1..Len(a), c \in alphabet}
    \cup {SubSeq(a, 1, i) \o <<c>> \o SubSeq(a, i + 1, Len(a)) : i \in 0..Len(a), c \in alphabet}
\* b is a with one character taken out
OneRemoved(a, b) ==
  Len(a) = Len(b) + 1 /\ \E i \in 1..Len(a) : SubSeq(a, 1, i - 1) \o SubSeq(a, i + 1, Len(a)) = b
AtMostOneEdit(a, b) ==
  \/ Len(a) = Len(b) /\ Cardinality({i \in 1..Len(a) : a[i] # b[i]}) <= 1
  \/ OneRemoved(a, b)
  \/ OneRemoved(b, a)
\* the edit distance of two keys when it is at most 2, and 3 for every larger one
EditsUpTo3(a, b) ==
  IF a = b THEN 0
  ELSE IF AtMostOneEdit(a, b) THEN 1
  ELSE IF \E c \in OneEditFrom(a, Range(b)) : AtMostOneEdit(c, b) THEN 2
  ELSE 3
\* a list of suggestions for a token among candidates, the keys compared being
\* tokenKey and keys[i]
IsSuggestionList(list, tokenKey, candidates, keys) ==
  LET near == {i \in 1..Len(candidates) : EditsUpTo3(tokenKey, keys[i]) <= 2}
      edits(c) == EditsUpTo3(tokenKey, keys[CHOOSE i \in 1..Len(candidates) : candidates[i] = c])
  IN /\ Range(list) \subseteq {candidates[i] : i \in near}
     /\ Len(list) = (IF Cardinality(near) < 5 THEN Cardinality(near) ELSE 5)
     /\ \A i, j \in 1..Len(list) :
          i < j => \/ edits(list[i]) < edits(list[j])
                   \/ edits(list[i]) = edits(list[j]) /\ LocaleLess(list[i], list[j])
     /\ \A n \in near : \A i \in 1..Len(list) :
          candidates[n] \notin Range(list) =>
            \/ edits(list[i]) < edits(candidates[n])
            \/ edits(list[i]) = edits(candidates[n]) /\ LocaleLess(list[i], candidates[n])

\* C26: the suggestions are candidates whose key is within two edits of the token's
\* key, ordered by distance and then by the candidates' lexical order, and only
\* the first five of them; the line with the name token Alicee, Alice being a
\* user, has an UnknownName issue on Alicee once its boss token is found, and
\* Alice is the first suggestion when that issue is the one shown
C26_NearestFiveSuggestions ==
  \A n \in 1..Len(dOut) :
    /\ dToken # <<>> /\ dOut[n].fn = "getNameSuggestions" =>
         IsSuggestionList(dOut[n].list, normalizeKey(dToken), dValues,
                          [i \in 1..Len(dValues) |-> normalizeKey(dValues[i])])
    /\ dToken # <<>> /\ dOut[n].fn = "getBossSuggestions" =>
         IsSuggestionList(dOut[n].list, normalizeBossKey(dToken), dValues,
                          [i \in 1..Len(dValues) |-> normalizeBossKey(dValues[i])])
    /\ (/\ dOut[n].fn = "LineResolver" /\ pTables = TablesE
        /\ tAlicee \in Range(pParts.names) /\ NamesStepReached(pOut[1])) =>
         /\ \E k \in IssuesOfType(pOut[1], "UnknownName") : pOut[1].issues[k].token = tAlicee
         /\ pOut[1].issues[1].type = "UnknownName" /\ pOut[1].issues[1].token = tAlicee =>
              dOut[n].list = <<tAlice, tAlicia>>

\* Alicee among ten candidates: Alice at one edit, Alicia at two, Alec at three
C26_Witness ==
  /\ dToken = tAlicee
  /\ dValues = CandidateList
  /\ dOut # <<>>
  /\ dOut[1].fn = "getNameSuggestions"
  /\ dOut[1].list = <<tAlice, tAlicia>>

\* more than five candidates within two edits of Al: the five nearest are kept
C26_TruncatedWitness ==
  /\ dToken = tAl
  /\ dValues = CandidateList
  /\ dOut # <<>>
  /\ dOut[1].fn = "getNameSuggestions"
  /\ Len(dOut[1].list) = 5
  /\ dOut[1].list[1] = tAl
  /\ dOut[1].list[2] = tAy

\* the resolver shows the line 'Bo: Hy Alicee'
C26_ResolverWitness ==
  /\ pTables = TablesE
  /\ pParts.names = <<tAlicee>>
  /\ pParts.base = tHy
  /\ dOut # <<>>
  /\ dOut[1].fn = "LineResolver"
  /\ dOut[1].list[1] = tAlice

\* the rows of name in rows, as indexes
RowsOfUser(rows, name) == {i \in 1..Len(rows) : rows[i].name = name}
WeekPosition(row) == IndexOf(hWeeks, row.weekId)
\* the levels and the streaks of a user's rows taken in week order
InWeekOrder(rows, name) ==
  SortedSeq({WeekPosition(rows[i]) : i \in RowsOfUser(rows, name)})
RowAtPosition(rows, name, pos) ==
  rows[CHOOSE i \in RowsOfUser(rows, name) : WeekPosition(rows[i]) = pos]
LevelsInWeekOrder(rows, name) ==
  LET order == InWeekOrder(rows, name)
  IN [k \in 1..Len(order) |-> RowAtPosition(rows, name, order[k]).activityLevel]
StreaksInWeekOrder(rows, name) ==
  LET order == InWeekOrder(rows, name)
  IN [k \in 1..Len(order) |-> RowAtPosition(rows, name, order[k]).streak]

\* C8: per user, with the rows taken in week order, the streak is 1 on the first
\* row and on every row whose level differs from the previous row's, and the
\* previous streak plus 1 otherwise; it is at least 1 and does not depend on the
\* stored streak values; Low, Low, Medium, Medium, Medium gives 1, 2, 1, 2, 3.
C8_StreaksFollowLevels ==
  \A n \in 1..Len(hOut) :
    /\ \A name \in {tAl, tBo} :
         LET levels == LevelsInWeekOrder(hOut[n], name)
             streaks == StreaksInWeekOrder(hOut[n], name)
         IN /\ Len(levels) = Cardinality(RowsOfUser(hRows, name))
            /\ \A k \in 1..Len(streaks) :
                 /\ streaks[k] >= 1
                 /\ streaks[k] = IF k = 1 \/ levels[k] # levels[k-1] THEN 1
                                 ELSE streaks[k-1] + 1
            /\ levels = <<"Low", "Low", "Medium", "Medium", "Medium">>
                 => streaks = <<1, 2, 1, 2, 3>>
    /\ \A i \in 1..Len(hRows) :
         /\ hOut[n][i].weekId = hRows[i].weekId
         /\ hOut[n][i].name = hRows[i].name
         /\ hOut[n][i].activityLevel = hRows[i].activityLevel

\* the worked example, recomputed over rows stored with a streak of 7
C8_Witness ==
  /\ hOut # <<>>
  /\ \A i \in 1..Len(hRows) : hRows[i].streak = 7
  /\ LevelsInWeekOrder(hRows, tAl) = <<"Low", "Low", "Medium", "Medium", "Medium">>
  /\ StreaksInWeekOrder(hOut[1], tAl) = <<1, 2, 1, 2, 3>>
  /\ RowsOfUser(hRows, tBo) # {}

(***************************************************************************)
(* Properties of the week window                                           *)
(***************************************************************************)
\* the parse of every merged line of the file, kept or not
AllParsed ==
  LET mergedLines == MergedLines(fLines)
  IN [k \in 1..Len(mergedLines) |->
        parseLine(mergedLines[k].text, mergedLines[k].lineNumber, fTz, LookupOf(fTables))]
\* the first and the last millisecond of the seven days from the week start
WindowStart == fWeekStart * 24 * 60 * 60 * 1000
WindowEnd == WindowStart + 7 * 24 * 60 * 60 * 1000 - 1
Resolved(parsed) == parsed.timestampUtcMillis # NoMillis
InWindow(parsed) ==
  WindowStart <= parsed.timestampUtcMillis /\ parsed.timestampUtcMillis <= WindowEnd

\* C10: parseCurrentFile keeps a line whose timestamp resolved exactly when the
\* instant lies between the start of the week-start day (UTC) and the end of the
\* day six days later, both included; a line outside is dropped whether or not it
\* has issues.
C10_KeptIffInsideWeek ==
  \A n \in 1..Len(fOut) :
    SelectSeq(fOut[n], Resolved)
      = SelectSeq(AllParsed, LAMBDA parsed : Resolved(parsed) /\ InWindow(parsed))

\* a line in the last minute of the week is kept and a line with an unknown name
\* one minute later is dropped
C10_Witness ==
  /\ fOut # <<>>
  /\ \E k \in 1..Len(fOut[1]) : fOut[1][k].timestampUtcMillis = WindowEnd - 59999
  /\ \E k \in 1..Len(AllParsed) :
       /\ AllParsed[k].timestampUtcMillis = WindowEnd + 1
       /\ AllParsed[k].issues # <<>>
       /\ \A j \in 1..Len(fOut[1]) : fOut[1][j].lineNumber # AllParsed[k].lineNumber

\* an issue that is not the failure of the timestamp itself
OtherIssues(parsed) == \E j \in 1..Len(parsed.issues) : parsed.issues[j].type # "InvalidTimestamp"

\* C11: of the entries whose timestamp could not be resolved, parseCurrentFile
\* keeps those that carry other issues and drops, as noise, those whose only
\* fault is the timestamp.
C11_UnresolvedKeptIffOtherIssues ==
  \A n \in 1..Len(fOut) :
    SelectSeq(fOut[n], LAMBDA parsed : ~Resolved(parsed))
      = SelectSeq(AllParsed, LAMBDA parsed : ~Resolved(parsed) /\ OtherIssues(parsed))

UnsetIsReported(parsed) ==
  parsed.timestampUtcMillis = NoMillis =>
    \E i \in 1..Len(parsed.issues) :
      parsed.issues[i].type \in {"InvalidTimestamp", "UnsupportedFormat"}
NeitherDialect(rawText) == ~OldFormatMatches(rawText) /\ ~NewFormatMatches(rawText)
BareUnsupported(parsed) ==
  /\ Len(parsed.issues) = 1
  /\ parsed.issues[1].type = "UnsupportedFormat"
  /\ parsed.timestampRaw = <<>>
  /\ parsed.timestampUtcMillis = NoMillis
  /\ parsed.author = Undefined
  /\ parsed.bossRaw = Undefined
  /\ parsed.bossCanonical = Undefined
  /\ parsed.addNames = <<>>
  /\ parsed.subtractNames = <<>>

\* C36: a parsed line without timestampUtcMillis has an InvalidTimestamp or an
\* UnsupportedFormat issue; text of neither dialect gives one UnsupportedFormat
\* issue and nothing else; parseCurrentFile keeps every entry whose timestamp
\* did not resolve
C36_UnsetTimestampIsAnIssue ==
  /\ \A n \in 1..Len(pOut) : UnsetIsReported(pOut[n])
  /\ \A n \in 1..Len(fOut) : \A k \in 1..Len(fMerged) :
       /\ UnsetIsReported(AllParsed[k])
       /\ NeitherDialect(fMerged[k].text) => BareUnsupported(AllParsed[k])
       /\ AllParsed[k].timestampUtcMillis = NoMillis =>
            \E j \in 1..Len(fOut[n]) : fOut[n][j] = AllParsed[k]

\* a file whose first line has no timestamp and whose second has one that no
\* format parses: both entries are kept
C36_Witness ==
  /\ Len(fOut) = 1
  /\ Len(fMerged) = 2
  /\ NeitherDialect(fMerged[1].text)
  /\ fMerged[2].text.fmt = "old" /\ ~fMerged[2].text.stamp.ok
  /\ Len(fOut[1]) = 2
  /\ fOut[1][1].timestampRaw = <<>>
  /\ fOut[1][2].timestampRaw # <<>> /\ fOut[1][2].timestampUtcMillis = NoMillis

(***************************************************************************)
(* Properties of the wizard                                                *)
(***************************************************************************)
\* a step that starts a save
SaveStarts == Len(saveTasks') > Len(saveTasks)
\* what the lines without issues (and not discarded) credit to a user
CreditedBy(lines, discarded, name) ==
  SumSeq([k \in 1..Len(lines) |->
    IF lines[k].issues = <<>> /\ lines[k].lineNumber \notin discarded
         /\ lines[k].bossCanonical # Undefined
    THEN LinePoints(lines[k], BossPointsMap(bosses))
           * (CountIn(lines[k].addNames, name) - CountIn(lines[k].subtractNames, name))
    ELSE 0])

\* C1: a save is started only when the file has been parsed and every parsed line
\* that is not discarded has no issues; the rows handed to the save hold the
\* points of the lines without issues only.
C1_SaveOnlyWhenResolved ==
  [][SaveStarts =>
       /\ hasParsed
       /\ \A k \in 1..Len(parsedLines) :
            parsedLines[k].lineNumber \notin discardedLines => parsedLines[k].issues = <<>>
       /\ LET rows == saveTasks'[Len(saveTasks')].rows
          IN \A r \in 1..Len(rows) :
               rows[r].totalPoints = CreditedBy(parsedLines, discardedLines, rows[r].name)]_vars

\* a save in flight whose file has a discarded line with issues and a line that
\* credits points
C1_Witness ==
  /\ saveTasks # <<>>
  /\ hasParsed
  /\ \E k \in 1..Len(parsedLines) :
       parsedLines[k].issues # <<>> /\ parsedLines[k].lineNumber \in discardedLines
  /\ \E r \in 1..Len(saveTasks[1].rows) : saveTasks[1].rows[r].totalPoints # 0

\* the sum of a user's stored totals over the target week and the up to two
\* stored weeks before it
StoredSum(totals, weeks, target, name) ==
  LET earlier == {w \in weeks : w < target}
      window == {target} \cup {w \in earlier : Cardinality({v \in earlier : v > w}) < 2}
  IN SumSeq([i \in 1..Len(totals) |->
       IF totals[i].name = name /\ totals[i].weekId \in window
       THEN Number(totals[i].totalPoints) ELSE 0])

\* C27: whenever loadSetupData answers Run DKP Flow from the cache, the cache is
\* less than 180000 ms old and holds what the sheets hold: no write of the wizard
\* (alias append, boss append, week save) has succeeded since the rows were read
C27_ServedCacheIsFresh ==
  [][runWeekFlowCached =>
       /\ nowMs - setupCacheRef[1].loadedAt < 180000
       /\ setupCacheRef[1].data = loadSetupBundle(sheetSetup, sheetWeeks)]_vars

\* C29: at most one week save is in flight at any time
C29_OneSaveInFlight == Len(saveTasks) <= 1

\* C30: when the draft of entry n starts with a timestamp of the week and Check
\* Line is clicked, the re-parsed entry n has the trimmed draft as its rawText
\* and the issues of the draft parsed alone, continuation lines or not
StartsInWeek(value) ==
  /\ isTimestampLineStart(value)
  /\ parseTimestampToUtcMillis(value.stamp, timezone) # NoMillis
  /\ parseTimestampToUtcMillis(value.stamp, timezone) >=
       weekBoundsFromUtcSunday(weekStartUtcDate).startUtcMillis
  /\ parseTimestampToUtcMillis(value.stamp, timezone) <=
       weekBoundsFromUtcSunday(weekStartUtcDate).endUtcMillis
ParsedAlone(value, lineNumber) ==
  parseLine(TrimLine(value), lineNumber, timezone,
            createParserLookup(canonicalUsers, bosses, nameAliases, bossAliases))
C30_CheckedEntryIsTheDraft ==
  [][\A k \in Range(unresolved) : \A value \in Drafts(parsedLines[k]) :
       (handleCheckLine(parsedLines[k].lineNumber, value) /\ StartsInWeek(value)) =>
         \E j \in 1..Len(parsedLines') :
           /\ parsedLines'[j].lineNumber = parsedLines[k].lineNumber
           /\ parsedLines'[j].rawText = TrimLine(value)
           /\ parsedLines'[j].issues = ParsedAlone(value, parsedLines[k].lineNumber).issues]_vars

\* a step that sends fetch again, and one that ends a call on a failing status
RetriedRightly ==
  rq'.sent > rq.sent /\ rq.phase # "idle" =>
    /\ toUpperCase(rq.method) \in {<<>>, <<"G","E","T">>}
    /\ rq.status \in {429, 500, 503}
    /\ rq.sent <= 4
FailsAtOnce ==
  \A status \in StatusPool \ {429, 500, 503} :
    (rq.phase = "fetching" /\ rq'.status = status /\ rq'.phase # "fetching" /\ ~ResponseOk(status)) =>
      rq'.phase = "done" /\ rq'.result = "error"
\* C38: a call of request ends with a result or an error; fetch is sent again
\* only after a GET got 429, 500 or 503, at most four more times (five in all);
\* any other failing status ends the call with an error at once, and a request
\* that is not a GET is sent once
C38_RequestEndsInFiveAttempts ==
  /\ [](rq.sent <= 5)
  /\ [](toUpperCase(rq.method) \notin {<<>>, <<"G","E","T">>} => rq.sent <= 1 /\ rq.phase # "sleeping")
  /\ [][RetriedRightly /\ FailsAtOnce]_vars
  /\ (rq.phase = "fetching") ~> (rq.phase = "done")

\* a GET was answered 503 five times: the fifth answer ended the call
C38_Witness ==
  /\ rq.phase = "done"
  /\ rq.method = <<"g","e","t">>
  /\ rq.sent = 5
  /\ rq.status = 503
  /\ rq.result = "error"
  /\ rq.backoffMs = 500 * 8 + 249

\* C28: when rows are saved under a week id, every line aggregated into them has a
\* timestamp between the start of that week and its end, whatever the user did
\* between the parse and the save
C28_SavedLinesAreOfTheWeek ==
  [][\A i \in 1..Len(saveTasks) :
       SaveDone(i) =>
         \A k \in 1..Len(saveTasks[i].lines) :
           /\ saveTasks[i].lines[k].timestampUtcMillis >= saveTasks[i].weekId * MsPerDay
           /\ saveTasks[i].lines[k].timestampUtcMillis < (saveTasks[i].weekId + 7) * MsPerDay]_vars

\* C9: the last3WeeksTotal that saveWeeklyData and loadStoredWeekView report for a
\* user is the sum of the user's totalPoints over the target week and up to two
\* preceding stored weeks, zero and negative totals included.
C9_Last3IsSumOfThreeWeeks ==
  [][/\ \A i \in 1..Len(saveTasks) :
          SaveDone(i) =>
            \A k \in 1..Len(resultRows') :
              resultRows'[k].last3WeeksTotal
                = StoredSum(sheetTotals', Range(WeekIds(sheetWeeks')), saveTasks[i].weekId,
                            resultRows'[k].name)
     /\ \A i \in 1..Len(viewTasks) :
          ViewLoaded(i) =>
            \A k \in 1..Len(resultRows') :
              resultRows'[k].last3WeeksTotal
                = StoredSum(sheetTotals, Range(WeekIds(sheetWeeks)), viewTasks[i].weekId,
                            resultRows'[k].name)]_vars

InputWords == pParts.pre \o <<BossTokenText(pParts.base, pParts.mods)>> \o pParts.names
IssueTypes(parsed) == {parsed.issues[k].type : k \in 1..Len(parsed.issues)}

\* a token of the name tail: 'not', a resolvable user, or not boss-like
InNameTail(token) ==
  \/ toLowerCase(token) = notWord
  \/ resolveName(token, pLookup).canonical # Undefined
  \/ ~looksBossLikeToken(stripBossToken(token))
\* where the maximal suffix of such tokens starts
NameTailStart ==
  MinOf({i \in 1..(Len(InputWords) + 1) : \A j \in i..Len(InputWords) : InNameTail(InputWords[j])})
BossCandidates == {i \in 1..Len(InputWords) : isBossCandidateToken(InputWords[i], pLookup)}
CandidatesBeforeTail == {i \in BossCandidates : i < NameTailStart}
ExpectedBossIndex ==
  IF BossCandidates = {} THEN 0
  ELSE IF CandidatesBeforeTail # {} THEN MaxOf(CandidatesBeforeTail)
  ELSE MaxOf(BossCandidates)

NothingExtracted(parsed) ==
  /\ parsed.author = Undefined
  /\ parsed.bossRaw = Undefined
  /\ parsed.bossCanonical = Undefined
  /\ parsed.addNames = <<>>
  /\ parsed.subtractNames = <<>>

\* the issues of the names step
NameIssues(parsed) ==
  SelectSeq(parsed.issues, LAMBDA issue : issue.type \in {"UnknownName", "MultipleNotTokens"})

\* no token of the line holds a ":"
NoSecondColon == \A i \in 1..Len(InputWords) : ":" \notin Range(InputWords[i])

\* C17: a legacy line without a ":" after the timestamp gets UnsupportedFormat
\* and nothing else: no author, boss or names, bonus 0, multiplier 1, and no
\* UnknownBoss or UnknownName issue
C17_NoSeparatorStopsTheLine ==
  \A n \in 1..Len(pOut) :
    pParts.fmt = "old" /\ NoSecondColon =>
      /\ "UnsupportedFormat" \in IssueTypes(pOut[n])
      /\ IssueTypes(pOut[n]) \subseteq {"UnsupportedFormat", "InvalidTimestamp"}
      /\ NothingExtracted(pOut[n])
      /\ pOut[n].pointsBonus = 0
      /\ pOut[n].pointsMultiplier = MultiplierOne

\* a legacy line "Bo Hy(brucy,zz) Zed" was parsed: modifier, boss and unknown name
\* are there to be read
C17_Witness ==
  /\ Len(pOut) = 1
  /\ pParts.fmt = "old" /\ NoSecondColon
  /\ pParts.pre = <<tBo>> /\ pParts.base = tHy /\ pParts.mods # <<>> /\ pParts.names = <<tZed>>
  /\ "UnsupportedFormat" \in IssueTypes(pOut[1])

\* the lines "<ts>: <author>: <boss> <names...>" of the harness
WellFormedLegacy == pParts.fmt = "old" /\ pParts.pre \in {<<tBoColon>>, <<tBo, tBoColon>>}
AuthorWords == IF pParts.pre = <<tBoColon>> THEN <<tBo>> ELSE <<tBo, tBo>>
PayloadNames == applyNamesWithNotRule(pParts.names, pLookup, <<>>)

\* C18: a well-formed legacy line gets no UnsupportedFormat issue and a non-empty
\* author; the first token of the payload is the boss token and the others are
\* the name tokens
C18_LegacyLineIsSplit ==
  \A n \in 1..Len(pOut) :
    WellFormedLegacy =>
      /\ "UnsupportedFormat" \notin IssueTypes(pOut[n])
      /\ pOut[n].author # Undefined /\ pOut[n].author # <<>>
      /\ pOut[n].author = JoinWith(AuthorWords, pParts.sep)
      /\ pOut[n].bossRaw = pParts.base
      /\ pOut[n].addNames = PayloadNames.addNames
      /\ pOut[n].subtractNames = PayloadNames.subtractNames
      /\ NameIssues(pOut[n]) = PayloadNames.issues

\* "Bo Bo: Hy Al not Bo" was parsed
C18_Witness ==
  /\ Len(pOut) = 1
  /\ WellFormedLegacy
  /\ pParts.pre = <<tBo, tBoColon>> /\ pParts.base = tHy /\ pParts.names = <<tAl, tNot, tBo>>
  /\ pOut[1].addNames = <<tAl>> /\ pOut[1].subtractNames = <<tBo>>

\* the same line with a timestamp that parses
WithGoodStamp == parseLine(LineOf([pParts EXCEPT !.stamp = GoodStamp]), 1, pTz, pLookup)
OtherThanTimestamp(parsed) ==
  SelectSeq(parsed.issues, LAMBDA issue : issue.type # "InvalidTimestamp")
SameButTimestamp(parsed, ref) ==
  /\ parsed.author = ref.author
  /\ parsed.bossRaw = ref.bossRaw
  /\ parsed.bossCanonical = ref.bossCanonical
  /\ parsed.pointsBonus = ref.pointsBonus
  /\ parsed.pointsMultiplier = ref.pointsMultiplier
  /\ parsed.addNames = ref.addNames
  /\ parsed.subtractNames = ref.subtractNames
  /\ OtherThanTimestamp(parsed) = ref.issues

\* C19: in both dialects a timestamp that matches the pattern and that no format
\* parses adds exactly one InvalidTimestamp issue and leaves timestampUtcMillis
\* unset; author, boss, modifiers, names and the other issues are those of the
\* same line with a timestamp that parses
C19_BadTimestampParsesTheRest ==
  \A n \in 1..Len(pOut) :
    pParts.fmt \in {"old", "new"} /\ ~pParts.stamp.ok =>
      /\ Cardinality(IssuesOfType(pOut[n], "InvalidTimestamp")) = 1
      /\ pOut[n].timestampUtcMillis = NoMillis
      /\ SameButTimestamp(pOut[n], WithGoodStamp)

\* a line with a failing timestamp, an unknown boss with an unknown modifier and
\* two NOT tokens was parsed
C19_Witness ==
  /\ Len(pOut) = 1
  /\ ~pParts.stamp.ok
  /\ {"InvalidTimestamp", "UnknownModifier", "UnknownBoss", "MultipleNotTokens", "UnknownName"}
       \subseteq IssueTypes(pOut[1])
  /\ pOut[1].pointsBonus = 5

\* the key of the second lookup: that of the alias's canonical value when the
\* token is an alias, that of the token otherwise
SecondKey(token) ==
  IF normalizeBossKey(token) \in DOMAIN pLookup.bossAliasByKey
  THEN normalizeBossKey(pLookup.bossAliasByKey[normalizeBossKey(token)])
  ELSE normalizeBossKey(token)
UnknownBossTokens(parsed) ==
  SelectSeq(parsed.issues, LAMBDA issue : issue.type = "UnknownBoss")

\* C20: the boss token is looked up among the boss aliases first and then among
\* the bosses, by the alias's canonical value when there is an alias (an alias
\* wins over a boss of the same key); bossCanonical is set iff the second
\* lookup finds a boss, and otherwise the line has an UnknownBoss issue with the
\* boss token as it was read
C20_AliasThenBoss ==
  \A n \in 1..Len(pOut) :
    pOut[n].bossRaw # Undefined =>
      IF SecondKey(pOut[n].bossRaw) \in DOMAIN pLookup.bossesByKey
      THEN /\ pOut[n].bossCanonical = pLookup.bossesByKey[SecondKey(pOut[n].bossRaw)].boss
           /\ UnknownBossTokens(pOut[n]) = <<>>
      ELSE /\ pOut[n].bossCanonical = Undefined
           /\ Len(UnknownBossTokens(pOut[n])) = 1
           /\ UnknownBossTokens(pOut[n])[1].token = pOut[n].bossRaw

\* the token Hy, a boss and an alias of Pn, was resolved to Pn
C20_Witness ==
  /\ Len(pOut) = 1
  /\ pOut[1].bossRaw = tHy
  /\ normalizeBossKey(tHy) \in DOMAIN pLookup.bossesByKey
  /\ normalizeBossKey(tHy) \in DOMAIN pLookup.bossAliasByKey
  /\ pOut[1].bossCanonical = tPn

\* a token whose alias target is not in the canonical table and is itself the
\* key of an alias
ChainedName(token) ==
  /\ normalizeKey(token) \in DOMAIN pLookup.nameAliasByKey
  /\ normalizeKey(pLookup.nameAliasByKey[normalizeKey(token)]) \notin DOMAIN pLookup.usersByKey
  /\ normalizeKey(pLookup.nameAliasByKey[normalizeKey(token)]) \in DOMAIN pLookup.nameAliasByKey
ChainedBoss(token) ==
  /\ normalizeBossKey(token) \in DOMAIN pLookup.bossAliasByKey
  /\ normalizeBossKey(pLookup.bossAliasByKey[normalizeBossKey(token)]) \notin DOMAIN pLookup.bossesByKey
  /\ normalizeBossKey(pLookup.bossAliasByKey[normalizeBossKey(token)]) \in DOMAIN pLookup.bossAliasByKey
IssueTokens(parsed, type) ==
  {parsed.issues[k].token : k \in IssuesOfType(parsed, type)}
\* the name is the user found under the token's key or under its alias target's key
OneHopName(name) ==
  \E i \in 1..Len(pParts.names) :
    name = MapGet(pLookup.usersByKey,
                  normalizeKey(AliasResolved(pParts.names[i],
                                 MapGet(pLookup.nameAliasByKey, normalizeKey(pParts.names[i])))))

\* C21: alias resolution is single-hop for names and bosses: a token goes through
\* at most one alias row and the result is looked up in the canonical table, so
\* a token whose alias target is only an alias key gives UnknownName / UnknownBoss
C21_SingleHopAliases ==
  \A n \in 1..Len(pOut) :
    WellFormedLegacy =>
      /\ \A i \in 1..Len(pParts.names) :
           ChainedName(pParts.names[i]) => pParts.names[i] \in IssueTokens(pOut[n], "UnknownName")
      /\ \A name \in Range(pOut[n].addNames) \cup Range(pOut[n].subtractNames) : OneHopName(name)
      /\ ChainedBoss(pParts.base) =>
           /\ pOut[n].bossCanonical = Undefined
           /\ IssueTokens(pOut[n], "UnknownBoss") = {pParts.base}

\* "Bo: hd ay Zed" with hd -> Zz -> Hy and Zed -> ay -> Al: ay is resolved, the
\* chained tokens are not
C21_Witness ==
  /\ Len(pOut) = 1
  /\ WellFormedLegacy
  /\ pParts.base = tHd /\ pParts.names = <<tAy, tZed>>
  /\ ChainedBoss(tHd) /\ ChainedName(tZed)
  /\ pOut[1].addNames = <<tAl>>
  /\ pOut[1].bossCanonical = Undefined

\* the names and issues the tokens after index b give
NamesAfter(b) == applyNamesWithNotRule(SubSeq(InputWords, b + 1, Len(InputWords)), pLookup, <<>>)

\* the example: Bo Zed Hy Al, with Hy a boss and Al a user
ExampleLine ==
  /\ pParts.fmt = "new" /\ pParts.stamp = GoodStamp
  /\ InputWords = <<tBo, tZed, tHy, tAl>>
  /\ pTables = TablesA

\* C16: in the alternate dialect, with b the index chosen for the boss, the
\* author is the tokens before b joined by single spaces, the boss token is
\* token b and the name tokens are exactly the tokens after b; Bo Zed Hy Al
\* gives the third token as boss, author "Bo Zed", addNames [Al] and no issue
C16_SplitAtBossIndex ==
  \A n \in 1..Len(pOut) :
    /\ pParts.fmt = "new" /\ chooseBossIndexForNewFormat(InputWords, pLookup) # 0 =>
         /\ pOut[n].author =
              JoinWith(SubSeq(InputWords, 1, chooseBossIndexForNewFormat(InputWords, pLookup) - 1),
                       <<" ">>)
         /\ pOut[n].bossRaw =
              stripBossToken(InputWords[chooseBossIndexForNewFormat(InputWords, pLookup)])
         /\ pOut[n].addNames =
              NamesAfter(chooseBossIndexForNewFormat(InputWords, pLookup)).addNames
         /\ pOut[n].subtractNames =
              NamesAfter(chooseBossIndexForNewFormat(InputWords, pLookup)).subtractNames
         /\ NameIssues(pOut[n]) =
              NamesAfter(chooseBossIndexForNewFormat(InputWords, pLookup)).issues
    /\ ExampleLine =>
         /\ pOut[n].author = tBo \o <<" ">> \o tZed
         /\ pOut[n].bossRaw = tHy
         /\ pOut[n].bossCanonical = tHy
         /\ pOut[n].addNames = <<tAl>>
         /\ pOut[n].subtractNames = <<>>
         /\ pOut[n].issues = <<>>

\* the example was parsed, its tokens two spaces apart
C16_Witness ==
  Len(pOut) = 1 /\ ExampleLine /\ pParts.sep = <<" ", " ">> /\ pOut[1].addNames = <<tAl>>

\* C15: in the alternate dialect the boss token is the last boss candidate
\* strictly before the start of the name tail, else the last candidate overall;
\* without a candidate the line gets UnsupportedFormat and no author, boss or names
C15_BossIndexRule ==
  \A n \in 1..Len(pOut) :
    pParts.fmt = "new" =>
      IF ExpectedBossIndex = 0
      THEN "UnsupportedFormat" \in IssueTypes(pOut[n]) /\ NothingExtracted(pOut[n])
      ELSE /\ "UnsupportedFormat" \notin IssueTypes(pOut[n])
           /\ pOut[n].author = Join(SubSeq(InputWords, 1, ExpectedBossIndex - 1))
           /\ pOut[n].bossRaw = stripBossToken(InputWords[ExpectedBossIndex])

\* a line whose last candidate lies in the name tail: an earlier one is chosen
C15_Witness ==
  /\ Len(pOut) = 1
  /\ pParts.fmt = "new"
  /\ CandidatesBeforeTail # {}
  /\ ExpectedBossIndex < MaxOf(BossCandidates)
  /\ pOut[1].bossRaw = t5
  /\ pOut[1].author = tHy

IssueFree(items, lineNumber) ==
  \E j \in 1..Len(items) : items[j].lineNumber = lineNumber /\ items[j].issues = <<>>

\* the physical lines with text, and those that start a logical entry: the lines
\* the timestamp test recognizes and the first line with text
WithText == {i \in 1..Len(fLines) : \E k \in 1..Len(fLines[i].rest) : fLines[i].rest[k] \notin WS}
EntryStarts ==
  {i \in WithText : OldFormatMatches(fLines[i]) \/ NewFormatMatches(fLines[i]) \/ i = MinOf(WithText)}
\* the lines with text from an entry's first line up to the next entry
LinesOfEntry(first) ==
  SortedSeq({i \in WithText : i >= first /\ \A j \in EntryStarts : j > first => i < j})
EntryText(first) ==
  JoinWith([k \in 1..Len(LinesOfEntry(first)) |-> TrimLine(fLines[LinesOfEntry(first)[k]]).rest],
           <<" ">>)

\* C22: the merge step drops the blank lines, starts an entry at every line the
\* timestamp test recognizes and at the first line with text, appends every other
\* line with text to the current entry after a space, and numbers each entry by
\* the 1-based position of its first physical line: the numbers strictly increase
C22_MergeStep ==
  fOut # <<>> =>
    /\ Len(fMerged) = Cardinality(EntryStarts)
    /\ \A k \in 1..Len(fMerged) :
         /\ fMerged[k].lineNumber = SortedSeq(EntryStarts)[k]
         /\ fMerged[k].text.fmt = fLines[fMerged[k].lineNumber].fmt
         /\ fMerged[k].text.stamp = fLines[fMerged[k].lineNumber].stamp
         /\ fMerged[k].text.rest = EntryText(fMerged[k].lineNumber)
    /\ \A k \in 1..(Len(fMerged) - 1) : fMerged[k].lineNumber < fMerged[k + 1].lineNumber

\* a file of a line without timestamp, a blank line, a timestamped line and its
\* wrapped payload was merged into two entries numbered 1 and 3
C22_Witness ==
  /\ fOut # <<>>
  /\ Len(fLines) = 4
  /\ fLines[1] = PlainLine(tBo)
  /\ fLines[2] = PlainLine(<<" ", " ">>)
  /\ fLines[3] = RawLine("old", StampAt(1, 720), <<tBoColon, tHy, tAl>>)
  /\ fLines[4] = PlainLine(<<" ", " ">> \o tAl \o <<" ">>)
  /\ Len(fMerged) = 2
  /\ fMerged[2].lineNumber = 3
  /\ fMerged[2].text.rest = <<" ">> \o Join(<<tBoColon, tHy, tAl, tAl>>)

\* C13: across the resolver operations that extend the lookup tables and re-parse
\* the whole file, a line that had no issue before a step has none after it
C13_FixedLinesStayFixed ==
  [][\A k \in 1..Len(parsedLines) :
       parsedLines[k].issues = <<>> => IssueFree(parsedLines', parsedLines[k].lineNumber)]_vars

\* the issue type a resolver operation is offered for
IssueTypeOf(task) == IF task.kind = "name" THEN "UnknownName" ELSE "UnknownBoss"
\* some line of the list carries an issue of the type for the token
CarriesIssue(items, type, token) ==
  \E k \in 1..Len(items) : \E j \in 1..Len(items[k].issues) :
    items[k].issues[j].type = type /\ items[k].issues[j].token = token
\* a step in which the i-th resolver operation ends after its appends
Succeeds(i) ==
  /\ i \in 1..Len(resolveTasks)
  /\ resolveTasks' = RemoveAt(resolveTasks, i)
  /\ parseVersion' = parseVersion + 1

\* C31: when a resolver operation (add name alias, add boss alias, add boss with
\* alias) for the token of an Unknown issue succeeds, the tables hold the new
\* row, the whole file is parsed again, and no parsed line carries an UnknownName
\* (respectively UnknownBoss) issue for that token
C31_AddedTokenIsResolved ==
  [][\A i \in 1..MaxResolving :
       Succeeds(i) =>
         /\ resolveTasks[i].kind = "name" =>
               Alias(resolveTasks[i].alias, resolveTasks[i].canonical) \in Range(nameAliases')
         /\ resolveTasks[i].kind # "name" =>
               Alias(resolveTasks[i].alias, resolveTasks[i].canonical) \in Range(bossAliases')
         /\ resolveTasks[i].kind = "boss" =>
               Boss(resolveTasks[i].canonical, resolveTasks[i].points) \in Range(bosses')
         /\ Len(parsedLines') = Len(MergedLines(rawLines))
         /\ ~CarriesIssue(parsedLines', IssueTypeOf(resolveTasks[i]), resolveTasks[i].alias)]_vars

\* a step in which a resolver operation ends in its catch block
Fails ==
  /\ Len(resolveTasks') < Len(resolveTasks)
  /\ parseVersion' = parseVersion
\* every row of the tables in memory is a row of its tab
RowsAreStored ==
  /\ Range(nameAliases) \subseteq Range(sheetSetup.nameAliases)
  /\ Range(bossAliases) \subseteq Range(sheetSetup.bossAliases)
  /\ Range(bosses) \subseteq Range(sheetSetup.bosses)

\* C33: when an append fails during add name alias, add boss alias or add boss,
\* the alias and boss tables in memory, parsedLines and parseVersion stay as they
\* are, the error message is set and busy is false; no table in memory ever
\* holds a row that is not in its tab
C33_FailedAddChangesNothing ==
  /\ [][Fails =>
          /\ <<nameAliases, bossAliases, bosses, canonicalUsers>>' =
               <<nameAliases, bossAliases, bosses, canonicalUsers>>
          /\ parsedLines' = parsedLines
          /\ rawLines' = rawLines
          /\ discardedLines' = discardedLines
          /\ error' # ""
          /\ busy' = FALSE]_vars
  /\ []RowsAreStored

\* add boss failed at its second append: the boss row is in the Bosses tab, the
\* tables in memory and the parsed file are as before
C33_Witness ==
  /\ error = "Unable to add."
  /\ ~busy
  /\ resolveTasks = <<>>
  /\ parseVersion = 3
  /\ Len(sheetSetup.bosses) = 2
  /\ bosses = ResolverSetup.bosses
  /\ bossAliases = <<>>
  /\ \E k \in 1..Len(parsedLines) : CarriesIssue(parsedLines, "UnknownBoss", tPn)

\* the lines of the list whose number is not discarded
NotDiscarded(items) == SelectSeq(items, LAMBDA line : line.lineNumber \notin discardedLines)
\* a step in which a new file is loaded, or Run DKP Flow goes on after its load
ClearsDiscards ==
  \/ parsedLines' = <<>> /\ ~hasParsed'
  \/ /\ parseVersion' > parseVersion
     /\ \/ \E i \in 1..Len(setupTasks) :
             setupTasks[i].kind = "flow" /\ setupTasks' = RemoveAt(setupTasks, i)
        \/ CacheServed /\ setupTasks' = setupTasks /\ lastAutoCalcRef' = <<>> /\ ~busy

\* C34: a discarded line is not among the unresolved lines and no save that
\* starts while it is discarded counts it; a line stays discarded across Check
\* Line and alias additions; the discards are emptied only when a new file is
\* loaded or Run DKP Flow re-parses
C34_DiscardedStaysOut ==
  /\ [](\A k \in Range(unresolved) : parsedLines[k].lineNumber \notin discardedLines)
  /\ [][/\ Len(saveTasks') > Len(saveTasks) =>
            /\ saveTasks'[Len(saveTasks')].lines = NotDiscarded(parsedLines)
            /\ saveTasks'[Len(saveTasks')].rows =
                 computeWeeklySummary(NotDiscarded(parsedLines), BossPointsMap(bosses),
                                      canonicalUsers, [lowMax |-> 4, mediumMax |-> 9])
        /\ ~(discardedLines \subseteq discardedLines') =>
            ClearsDiscards /\ discardedLines' = {}]_vars

\* line 1 of the three-line file was discarded for its unknown name; an alias
\* added from line 3 then resolved the name on both lines, and the week was
\* saved with lines 2 and 3 only: Al has one kill, not two
C34_Witness ==
  /\ Len(rawLines) = 3
  /\ discardedLines = {1}
  /\ nameAliases = <<Alias(tZed, tAl)>>
  /\ Len(parsedLines) = 3
  /\ parsedLines[1].issues = <<>>
  /\ parsedLines[1].addNames = <<tAl>>
  /\ saveTasks = <<>>
  /\ \E k \in 1..Len(sheetTotals) :
       sheetTotals[k].name = tAl /\ sheetTotals[k].totalPoints = String(20)

\* the rows of a tab that are of the week, and those of the other weeks
OfWeek(tab, weekId) == SelectSeq(tab, LAMBDA row : row.weekId = weekId)
OfOtherWeeks(tab, weekId) == SelectSeq(tab, LAMBDA row : row.weekId # weekId)
\* a totals row without its streak
Unstreaked(tab) ==
  [k \in 1..Len(tab) |->
     <<tab[k].weekId, tab[k].name, tab[k].totalPoints, tab[k].activityLevel>>]
\* the same rows, each as often, in whatever order
SameRows(a, b) ==
  /\ Len(a) = Len(b)
  /\ \A row \in Range(a) \cup Range(b) :
       Cardinality({k \in 1..Len(a) : a[k] = row}) = Cardinality({k \in 1..Len(b) : b[k] = row})
\* the i-th save ends with its three tabs written
Saves(i) ==
  /\ i \in 1..Len(saveTasks)
  /\ saveTasks[i].phase = "writing"
  /\ saveTasks' = RemoveAt(saveTasks, i)
  /\ selectedStoredWeek' = saveTasks[i].weekId
  /\ ~busy'

\* C32: a save of week W that succeeds leaves in WeekUserTotals and
\* WeekBossBreakdown, for W, the rows of this save and no other, and one Weeks row
\* for W; the rows of every other week are as they were before the write, in
\* weekId, name, totalPoints, activityLevel and breakdown (the streak may differ)
C32_SaveReplacesOnlyItsWeek ==
  [][\A i \in 1..MaxSaves :
       Saves(i) =>
         /\ Len(OfWeek(sheetWeeks', saveTasks[i].weekId)) = 1
         /\ SameRows(OfOtherWeeks(sheetWeeks', saveTasks[i].weekId),
                     OfOtherWeeks(sheetWeeks, saveTasks[i].weekId))
         /\ SameRows(Unstreaked(OfWeek(sheetTotals', saveTasks[i].weekId)),
                     [k \in 1..Len(saveTasks[i].rows) |->
                        <<saveTasks[i].weekId, saveTasks[i].rows[k].name,
                          String(saveTasks[i].rows[k].totalPoints),
                          saveTasks[i].rows[k].activityLevel>>])
         /\ SameRows(Unstreaked(OfOtherWeeks(sheetTotals', saveTasks[i].weekId)),
                     Unstreaked(OfOtherWeeks(sheetTotals, saveTasks[i].weekId)))
         /\ SameRows(OfWeek(sheetBreakdown', saveTasks[i].weekId),
                     Flatten([k \in 1..Len(saveTasks[i].rows) |->
                                BreakdownOf(saveTasks[i].weekId, saveTasks[i].rows[k])]))
         /\ SameRows(OfOtherWeeks(sheetBreakdown', saveTasks[i].weekId),
                     OfOtherWeeks(sheetBreakdown, saveTasks[i].weekId))]_vars

\* a step in which a save ends without writing
SaveGivenUp ==
  /\ Len(saveTasks') < Len(saveTasks)
  /\ error' # ""
  /\ <<sheetWeeks, sheetTotals, sheetBreakdown>>' = <<sheetWeeks, sheetTotals, sheetBreakdown>>
\* a step of Run DKP Flow up to its first await
FlowStarts ==
  /\ ~busy
  /\ Len(rawLines) > 0
  /\ error' = ""
  /\ \/ Len(setupTasks') > Len(setupTasks)
     \/ parseVersion' > parseVersion /\ discardedLines' = {}

\* C35: a save starts only under a key (week id, parse version, number of
\* discarded lines) other than the one of the save started last, unless Run DKP
\* Flow was clicked since; after a save is cancelled or fails no save starts
\* while the key stays as it is
C35_OneSavePerKey ==
  [][/\ SaveStarts =>
          /\ lastAutoCalcRef # <<autoCalcKey>>
          /\ lastAutoCalcRef' = <<autoCalcKey>>
     /\ lastAutoCalcRef' # lastAutoCalcRef =>
          SaveStarts \/ (FlowStarts /\ lastAutoCalcRef' = <<>>)
     /\ (SaveGivenUp /\ lastAutoCalcRef = <<autoCalcKey>>) =>
          /\ ~AutoCalcEnabled'
          /\ lastAutoCalcRef' = <<autoCalcKey'>>]_vars

\* the overwrite of the stored week was declined: the page is idle, every line
\* is resolved, and the key is the one of the cancelled save
C35_Witness ==
  /\ error = "Save cancelled by user."
  /\ ~busy
  /\ saveTasks = <<>>
  /\ canRunCalculation
  /\ lastAutoCalcRef = <<autoCalcKey>>
  /\ discardedLines # {}

weekTabs == <<sheetWeeks, sheetTotals, sheetBreakdown>>
\* a step in which the save of a stored week ends with the cancellation message
Declined ==
  /\ error' = "Save cancelled by user."
  /\ \E i \in 1..Len(saveTasks) :
       /\ saveTasks[i].phase = "reading"
       /\ WeekExists(sheetWeeks, saveTasks[i].weekId)
       /\ saveTasks' = RemoveAt(saveTasks, i)

====
